---- MODULE Spec2Model ----
(***************************************************************************)
(* Model of the Corelytics generation client (src/gemini_client.py):      *)
(* model discovery at start-up, the retry/fallback engine, and the three  *)
(* public wrappers that turn every engine failure into a default value.   *)
(*                                                                         *)
(* Strings that the code inspects by substring are sequences of tokens;   *)
(* a model name such as "models/gemini-2.5-flash" is                       *)
(* <<"models", "/", "gemini", "2.5", "flash">> (the hyphens between       *)
(* tokens are implicit).  Python indices stay 0-based in the state.       *)
(***************************************************************************)
EXTENDS Integers, Sequences, FiniteSets, TLC

\* ------------------------------------------------------------------ bounds
\* Longest provider listing that initialize_gemini_model is run against.
MaxAvail == 2
\* Longest preference list the start-position computation is probed with.
MaxPrefs == 3
\* Longest text and longest list of parts of the responses the text
\* extraction is probed with.
MaxText == 2
MaxParts == 2

\* ------------------------------------------------------------- string model
\* Python's `sub in s` on token sequences: sub occurs contiguously in s.
Contains(s, sub) ==
    \E off \in 0..(Len(s) - Len(sub)) :
        \A j \in 1..Len(sub) : s[off + j] = sub[j]

\* Positions of "/" in a name.
SlashPositions(s) == {p \in 1..Len(s) : s[p] = "/"}

\* s.split('/')[-1]: what follows the last "/" (all of s when there is none).
LastSegment(s) ==
    IF SlashPositions(s) = {} THEN s
    ELSE LET last == CHOOSE p \in SlashPositions(s) :
                         \A q \in SlashPositions(s) : q <= p
         IN  SubSeq(s, last + 1, Len(s))

\* Python's None for the module-level model reference.
None == << >>

\* PREFERRED_MODELS, most preferred first.
PREFERRED_MODELS ==
    << <<"gemini", "2.5", "flash">>,
       <<"gemini", "flash", "latest">>,
       <<"gemini", "2.0", "flash", "exp">> >>

\* Names the provider may report from list_models().
NamePool ==
    { <<"models", "/", "gemini", "2.5", "flash">>,
      <<"models", "/", "gemini", "2.5", "flash", "lite">>,
      <<"models", "/", "gemini", "flash", "latest">>,
      <<"models", "/", "gemini", "2.0", "flash", "exp">>,
      <<"models", "/", "gemini", "pro">> }

\* genai.GenerativeModel(name).model_name: the library prefixes "models/"
\* to a name that carries no "/".
GenerativeModel(name) ==
    IF SlashPositions(name) = {} THEN <<"models", "/">> \o name ELSE name

\* All sequences over S of length 0..n.
SeqsUpTo(S, n) == UNION {[1..m -> S] : m \in 0..n}

\* ------------------------------------------------------------------- state
VARIABLES
    GEMINI_API_KEY,          \* TRUE when GOOGLE_API_KEY is set
    app_pc,                  \* start-up of app.py: "import", "initialized",
                             \* "serving"
    init_return,             \* "pending", "True" or "False"
    available_models_names,  \* local of initialize_gemini_model, kept
                             \* until app.py has looked at the return value
    current_gemini_model,    \* None or the model_name of the model object
    pc,                      \* per invocation: where it stands
    op,                      \* per invocation: the public function called
    start_model_index,       \* per invocation
    model_switch_attempt,    \* per invocation: the slot, 0-based
    inner_retry_attempt,     \* per invocation
    total_retries,           \* per invocation
    events,                  \* per invocation: switches, calls and sleeps
    response,                \* per invocation: what the engine returned
    ret,                     \* per invocation: what the wrapper returned
    probe,                   \* inputs and result of a probe of a function
    last_success,            \* history: the model of the last response and
                             \* whether an invocation has failed since
    session,                 \* the browser session of the one client
    db,                      \* the tables of the database
    request,                 \* the request being handled, its inputs
    http                     \* the answer to the last request

vars == << GEMINI_API_KEY, app_pc, init_return, available_models_names,
           current_gemini_model, pc, op, start_model_index,
           model_switch_attempt, inner_retry_attempt, total_retries,
           events, response, ret, probe, last_success, session, db,
           request, http >>

\* What the generation client never touches: the web layer's state.
AppVars == <<session, db, request, http>>

\* ---------------------------------------------------------- initialisation
\* What genai.list_models() does: it raises, or it yields model records.
ModelInfos == [name : NamePool, generateContent : BOOLEAN]

Listings ==
    {[raises |-> TRUE, models |-> << >>]} \cup
    {[raises |-> FALSE, models |-> m] : m \in SeqsUpTo(ModelInfos, MaxAvail)}

\* The list comprehension of lines 86-90: the names of the models whose
\* supported_generation_methods hold "generateContent", in listing order.
RECURSIVE AvailableNames(_)
AvailableNames(models) ==
    IF models = << >> THEN << >>
    ELSE IF Head(models).generateContent
         THEN <<Head(models).name>> \o AvailableNames(Tail(models))
         ELSE AvailableNames(Tail(models))

\* The test of line 95.
MatchesPreferred(preferred_name, name) ==
    \/ Contains(name, preferred_name)
    \/ Contains(name, preferred_name \o <<"latest">>)

\* next(... for name in names if ...), None when no name passes (93-96).
RECURSIVE FirstMatch(_, _)
FirstMatch(names, preferred_name) ==
    IF names = << >> THEN None
    ELSE IF MatchesPreferred(preferred_name, Head(names)) THEN Head(names)
         ELSE FirstMatch(Tail(names), preferred_name)

\* The loop of lines 92-101 from preference index i (0-based) on: the name
\* found for the first preference entry that has one, None when none has.
RECURSIVE FoundModelName(_, _)
FoundModelName(names, i) ==
    IF i >= Len(PREFERRED_MODELS) THEN None
    ELSE IF FirstMatch(names, PREFERRED_MODELS[i + 1]) # None
         THEN FirstMatch(names, PREFERRED_MODELS[i + 1])
         ELSE FoundModelName(names, i + 1)

\* Faulty variant: the loops swapped, the first available name that matches any
\* preference entry wins.
RECURSIVE ChosenModelName_by_listing(_)
ChosenModelName_by_listing(names) ==
    IF names = << >> THEN None
    ELSE IF \E j \in 1..Len(PREFERRED_MODELS) :
                MatchesPreferred(PREFERRED_MODELS[j], Head(names))
         THEN Head(names)
         ELSE IF ChosenModelName_by_listing(Tail(names)) # None
              THEN ChosenModelName_by_listing(Tail(names))
              ELSE Head(names)

\* The name initialize_gemini_model builds its model from: a preferred
\* match, else the first available model (103-104), else None (108-109).
ChosenModelName(names) ==
    IF FoundModelName(names, 0) # None THEN FoundModelName(names, 0)
    ELSE IF names # << >> THEN names[1]
    ELSE None

\* initialize_gemini_model(), lines 72-113, called once from app.py:28.
initialize_gemini_model ==
    /\ app_pc = "import"
    /\ app_pc' = "initialized"
    /\ IF ~GEMINI_API_KEY
       THEN /\ init_return' = "False"
            /\ UNCHANGED <<available_models_names, current_gemini_model>>
       ELSE \E listing \in Listings, constructed \in BOOLEAN :
              IF listing.raises
              THEN /\ init_return' = "False"
                   /\ UNCHANGED <<available_models_names,
                                  current_gemini_model>>
              ELSE LET names == AvailableNames(listing.models)
                       chosen == ChosenModelName(names)
                   IN  /\ available_models_names' = names
                       /\ IF chosen = None \/ ~constructed
                          THEN /\ init_return' = "False"
                               /\ UNCHANGED current_gemini_model
                          ELSE /\ init_return' = "True"
                               /\ current_gemini_model' =
                                      GenerativeModel(chosen)
    /\ UNCHANGED <<GEMINI_API_KEY, pc, op, start_model_index,
                   model_switch_attempt, inner_retry_attempt, total_retries,
                   events, response, ret, probe, last_success, AppVars>>

\* src/app.py:28-39: whatever initialize_gemini_model returned, the module
\* goes on (a warning is logged on False), registers the blueprints and
\* serves requests.  The locals of the initialisation are gone by then.
start_serving ==
    /\ app_pc = "initialized"
    /\ app_pc' = "serving"
    /\ available_models_names' = << >>
    /\ UNCHANGED <<GEMINI_API_KEY, init_return, current_gemini_model, pc,
                   op, start_model_index, model_switch_attempt,
                   inner_retry_attempt, total_retries, events, response,
                   ret, probe, last_success, AppVars>>

\* ------------------------------------------------------- provider responses
\* Characters of a response text.
Digits == {"0", "1", "2", "3", "4", "5", "6", "7", "8", "9"}
Whitespace == {" "}

\* A response object: its .text attribute holds a value, is absent, or
\* raises when read; .parts is a list whose parts may or may not bear text.
NoText == << >>

BodyPool ==
    { [text_attr |-> "value", text |-> <<"9", "5">>, parts |-> << >>],
      [text_attr |-> "value", text |-> <<" ">>, parts |-> << >>],
      [text_attr |-> "value", text |-> <<"-", "5", "0">>, parts |-> << >>],
      [text_attr |-> "value", text |-> <<"Trial", " ", "and", " ", "Error">>,
       parts |-> << >>],
      [text_attr |-> "raises", text |-> NoText, parts |-> << >>],
      [text_attr |-> "absent", text |-> NoText,
       parts |-> << [has_text |-> FALSE, text |-> NoText],
                    [has_text |-> TRUE, text |-> <<" ", "o", "k">>] >>],
      [text_attr |-> "absent", text |-> NoText, parts |-> << >>] }

\* Messages str(e) of an exception that no specific except clause takes.
MsgPool ==
    { <<"404", "Not", "Found">>, <<"Deadline", "Exceeded">>,
      <<"Connection", "Reset", "Error">> }

NoMsg == << >>
NoBody == [text_attr |-> "absent", text |-> NoText, parts |-> << >>]

\* What one generate_content call does: it returns a response or raises.
Outcomes ==
    {[kind |-> "response", msg |-> NoMsg, body |-> b] : b \in BodyPool} \cup
    {[kind |-> k, msg |-> NoMsg, body |-> NoBody] :
        k \in {"BlockedPromptException", "StopCandidateException",
               "BrokenResponseError", "ResourceExhausted"}} \cup
    {[kind |-> "Exception", msg |-> m, body |-> NoBody] : m \in MsgPool}

\* str.lower() on one token.
LowerToken(t) ==
    CASE t = "Not" -> "not"
      [] t = "Found" -> "found"
      [] t = "Bad" -> "bad"
      [] t = "Request" -> "request"
      [] t = "Connection" -> "connection"
      [] t = "Error" -> "error"
      [] t = "Deadline" -> "deadline"
      [] t = "Exceeded" -> "exceeded"
      [] t = "Reset" -> "reset"
      [] OTHER -> t

Lower(s) == [j \in 1..Len(s) |-> LowerToken(s[j])]

\* The test of line 177 on str(e).lower().
IsSwitchMessage(msg) ==
    LET error_message == Lower(msg)
    IN  \/ Contains(error_message, <<"not", "found">>)
        \/ Contains(error_message, <<"bad", "request">>)
        \/ Contains(error_message, <<"connection", "error">>)

\* Faulty variants of the except clauses: a blocked prompt switches models; quota
\* exhaustion falls through to the retry; a response is not returned; an
\* unclassified error is re-raised; a stopped generation is re-raised; an
\* unclassified error switches models.
Dispatch_block_switches(outcome) ==
    CASE outcome.kind = "response" -> "return_response"
      [] outcome.kind \in {"BlockedPromptException", "StopCandidateException",
                           "BrokenResponseError", "ResourceExhausted"} ->
            "break"
      [] outcome.kind = "Exception" ->
            IF IsSwitchMessage(outcome.msg) THEN "break" ELSE "return_none"

Dispatch_quota_retries(outcome) ==
    CASE outcome.kind = "response" -> "return_response"
      [] outcome.kind \in {"BlockedPromptException",
                           "StopCandidateException"} -> "return_none"
      [] outcome.kind = "BrokenResponseError" -> "break"
      [] outcome.kind = "ResourceExhausted" -> "retry"
      [] outcome.kind = "Exception" ->
            IF IsSwitchMessage(outcome.msg) THEN "break" ELSE "return_none"

Dispatch_success_falls_through(outcome) ==
    CASE outcome.kind = "response" -> "retry"
      [] outcome.kind \in {"BlockedPromptException",
                           "StopCandidateException"} -> "return_none"
      [] outcome.kind \in {"BrokenResponseError", "ResourceExhausted"} ->
            "break"
      [] outcome.kind = "Exception" ->
            IF IsSwitchMessage(outcome.msg) THEN "break" ELSE "return_none"

Dispatch_unclassified_escapes(outcome) ==
    CASE outcome.kind = "response" -> "return_response"
      [] outcome.kind \in {"BlockedPromptException",
                           "StopCandidateException"} -> "return_none"
      [] outcome.kind \in {"BrokenResponseError", "ResourceExhausted"} ->
            "break"
      [] outcome.kind = "Exception" ->
            IF IsSwitchMessage(outcome.msg) THEN "break" ELSE "raise"

Dispatch_stop_escapes(outcome) ==
    CASE outcome.kind = "response" -> "return_response"
      [] outcome.kind = "BlockedPromptException" -> "return_none"
      [] outcome.kind = "StopCandidateException" -> "raise"
      [] outcome.kind \in {"BrokenResponseError", "ResourceExhausted"} ->
            "break"
      [] outcome.kind = "Exception" ->
            IF IsSwitchMessage(outcome.msg) THEN "break" ELSE "return_none"

Dispatch_unclassified_switches(outcome) ==
    CASE outcome.kind = "response" -> "return_response"
      [] outcome.kind \in {"BlockedPromptException",
                           "StopCandidateException"} -> "return_none"
      [] outcome.kind \in {"BrokenResponseError", "ResourceExhausted",
                           "Exception"} -> "break"

\* What the try/except of lines 155-182 does with the outcome of a call:
\* return the response, return None, or break out of the inner loop.  No
\* clause lets control fall through to the sleep of lines 185-186
\* ("retry") and none lets the exception escape ("raise").
Dispatch(outcome) ==
    CASE outcome.kind = "response" -> "return_response"
      [] outcome.kind \in {"BlockedPromptException",
                           "StopCandidateException"} -> "return_none"
      [] outcome.kind = "BrokenResponseError" -> "break"
      [] outcome.kind = "ResourceExhausted" -> "break"
      [] outcome.kind = "Exception" ->
            IF IsSwitchMessage(outcome.msg) THEN "break" ELSE "return_none"

\* ------------------------------------------------------------------ engine
Invs == {1, 2}

\* range(3) of the inner loop, line 153.
InnerAttempts == 3

\* Faulty variant: the loop without its break, the last match wins.
RECURSIVE StartScan_last_match(_, _, _)
StartScan_last_match(prefs, initial_model_name, i) ==
    IF i >= Len(prefs) THEN 0
    ELSE LET later == StartScan_last_match(prefs, initial_model_name, i + 1)
         IN  IF later # 0 THEN later
             ELSE IF Contains(initial_model_name, prefs[i + 1]) THEN i ELSE 0

\* Lines 129-134: the index of the first preference entry contained in the
\* last segment of the active model's name, 0 when the loop finds none.
RECURSIVE StartScan(_, _, _)
StartScan(prefs, initial_model_name, i) ==
    IF i >= Len(prefs) THEN 0
    ELSE IF Contains(initial_model_name, prefs[i + 1]) THEN i
         ELSE StartScan(prefs, initial_model_name, i + 1)

\* Faulty variant: every invocation starts at the top of the list.
StartModelIndex_always_top(prefs, model_name) == 0

StartModelIndex(prefs, model_name) ==
    StartScan(prefs, LastSegment(model_name), 0)

\* Faulty variant: one slot too many.
max_model_switches_one_more == Len(PREFERRED_MODELS) + 1

\* Line 136.
max_model_switches == Len(PREFERRED_MODELS)

\* Faulty variant: the slots count from the top of the list, not from the start.
ModelToUseName_from_top(start, attempt) ==
    PREFERRED_MODELS[(attempt % Len(PREFERRED_MODELS)) + 1]

\* Line 141.
ModelToUseName(start, attempt) ==
    PREFERRED_MODELS[((start + attempt) % Len(PREFERRED_MODELS)) + 1]

\* Faulty variant: the guard of line 124 is missing.
NotInitialized_unchecked(current) == FALSE

\* Line 124: `not current_gemini_model`.
NotInitialized(current) == current = None

\* Faulty variant: a model object is only built when the reference holds none.
NeedsSwitch_only_when_unset(model_to_use_name, current) == current = None

\* Line 144: the slot's model is not the one the global reference holds.
NeedsSwitch(model_to_use_name, current) ==
    current = None \/ ~Contains(current, model_to_use_name)

NoResponse == [kind |-> "pending", model |-> None, call |-> 0,
               body |-> NoBody]
ReturnedNone == [kind |-> "None", model |-> None, call |-> 0,
                 body |-> NoBody]
Raised == [kind |-> "raised", model |-> None, call |-> 0, body |-> NoBody]

\* One entry of an invocation's log: a model switch, a failed switch, a
\* provider call with its outcome, or a sleep with its seconds.
NoOutcome == [kind |-> "-", msg |-> NoMsg, body |-> NoBody]

Event(ev, slot, model, outcome, secs) ==
    [ev |-> ev, slot |-> slot, model |-> model, out |-> outcome,
     secs |-> secs]

RECURSIVE Pow2(_)
Pow2(n) == IF n = 0 THEN 1 ELSE 2 * Pow2(n - 1)

\* ---------------------------------------------------------------- wrappers
Min(S) == CHOOSE x \in S : \A y \in S : x <= y
Max(S) == CHOOSE x \in S : \A y \in S : y <= x

\* str.strip(): drop leading and trailing whitespace.
Strip(s) ==
    LET keep == {p \in 1..Len(s) : s[p] \notin Whitespace}
    IN  IF keep = {} THEN << >> ELSE SubSeq(s, Min(keep), Max(keep))

\* Faulty variant: only the first part is looked at.
FirstPartText_first_only(parts) ==
    IF parts # << >> /\ parts[1].has_text THEN Strip(parts[1].text)
    ELSE NoText

\* The first part that has a text attribute, lines 199-201.
FirstPartText(parts) ==
    LET bearing == {p \in 1..Len(parts) : parts[p].has_text}
    IN  IF bearing = {} THEN NoText ELSE Strip(parts[Min(bearing)].text)

\* _extract_text_from_response, lines 191-205.  `resp` is what the engine
\* returned; reading a .text that raises lands in the except clause.
_extract_text_from_response(resp) ==
    IF resp.kind # "response" THEN NoText
    ELSE CASE resp.body.text_attr = "value" -> Strip(resp.body.text)
           [] resp.body.text_attr = "raises" -> NoText
           [] resp.body.text_attr = "absent" -> FirstPartText(resp.body.parts)

\* A float as num / 10^pow, fraction digits without trailing zeros.
Float(num, pow) == [num |-> num, pow |-> pow]
ZeroFloat == Float(0, 0)

DigitValue(c) ==
    CASE c = "0" -> 0 [] c = "1" -> 1 [] c = "2" -> 2 [] c = "3" -> 3
      [] c = "4" -> 4 [] c = "5" -> 5 [] c = "6" -> 6 [] c = "7" -> 7
      [] c = "8" -> 8 [] c = "9" -> 9

\* The number written by the first k digits of ds.
RECURSIVE DigitsValueUpTo(_, _)
DigitsValueUpTo(ds, k) ==
    IF k = 0 THEN 0
    ELSE 10 * DigitsValueUpTo(ds, k - 1) + DigitValue(ds[k])

DigitsValue(ds) == DigitsValueUpTo(ds, Len(ds))

\* Index of the last character of the run of digits that starts at p
\* (p - 1 when s[p] is no digit).
RunEnd(s, p) ==
    Max({e \in (p - 1)..Len(s) : \A q \in p..e : s[q] \in Digits})

\* Faulty variant: the pattern \\d+, which stops at the decimal point.
first_numeral_integer_only(s) ==
    LET starts == {p \in 1..Len(s) : s[p] \in Digits}
    IN  IF starts = {} THEN << >>
        ELSE SubSeq(s, Min(starts), RunEnd(s, Min(starts)))

\* re.findall(r'\d+\.?\d*', s)[0]: the leftmost match, << >> when the text
\* has no digit (findall returns an empty list).
first_numeral(s) ==
    LET starts == {p \in 1..Len(s) : s[p] \in Digits}
    IN  IF starts = {} THEN << >>
        ELSE LET p  == Min(starts)
                 e1 == RunEnd(s, p)
                 e2 == IF e1 < Len(s) /\ s[e1 + 1] = "."
                       THEN RunEnd(s, e1 + 2) ELSE e1
             IN  SubSeq(s, p, e2)

\* A digit string without its trailing zeros.
StripZeros(ds) ==
    LET nonzero == {p \in 1..Len(ds) : ds[p] # "0"}
    IN  IF nonzero = {} THEN << >> ELSE SubSeq(ds, 1, Max(nonzero))

\* float(numeral) for a numeral matched by the pattern above.
float(numeral) ==
    LET dots == {p \in 1..Len(numeral) : numeral[p] = "."}
        dot  == IF dots = {} THEN Len(numeral) + 1 ELSE CHOOSE p \in dots : TRUE
        int  == SubSeq(numeral, 1, dot - 1)
        frac == StripZeros(SubSeq(numeral, dot + 1, Len(numeral)))
    IN  Float(DigitsValue(int \o frac), Len(frac))

\* The sentence of line 286.
FAILED_MEAL_PLAN ==
    <<"Failed", " ", "to", " ", "generate", " ", "a", " ", "meal", " ",
      "plan.", " ", "The", " ", "AI", " ", "service", " ", "may", " ", "be",
      " ", "busy.", " ", "Please", " ", "try", " ", "again", " ", "later.">>

Returned(kind, val) == [kind |-> kind, val |-> val]
NotReturned == Returned("pending", << >>)

\* Faulty variant: the text is converted as a whole, without the pattern
\* scan; float() raises on a text that is no number.
estimate_calories_with_gemini_float_of_raw(resp) ==
    LET estimated_calories_raw == _extract_text_from_response(resp)
    IN  IF estimated_calories_raw = << >> THEN Returned("float", ZeroFloat)
        ELSE IF first_numeral(estimated_calories_raw) = estimated_calories_raw
             THEN Returned("float", float(estimated_calories_raw))
             ELSE Returned("raised", << >>)

\* estimate_calories_with_gemini after the engine call, lines 224-240.
estimate_calories_with_gemini(resp) ==
    LET estimated_calories_raw == _extract_text_from_response(resp)
        numeral == first_numeral(estimated_calories_raw)
    IN  IF estimated_calories_raw = << >> THEN Returned("float", ZeroFloat)
        ELSE IF numeral # << >>
             THEN IF float(numeral).num < 0
                  THEN Returned("float", ZeroFloat)
                  ELSE Returned("float", float(numeral))
             ELSE Returned("float", ZeroFloat)

\* generate_meal_plan_with_gemini after the engine call, lines 282-289.
generate_meal_plan_with_gemini(resp) ==
    LET meal_plan_text == _extract_text_from_response(resp)
    IN  IF meal_plan_text = << >> THEN Returned("str", FAILED_MEAL_PLAN)
        ELSE Returned("str", meal_plan_text)

\* Faulty variant: the failure value of the meal-plan path is returned.
generate_chat_response_fixed_sentence(resp) ==
    LET bot_response == _extract_text_from_response(resp)
    IN  IF bot_response = << >> THEN Returned("str", FAILED_MEAL_PLAN)
        ELSE Returned("str", bot_response)

\* generate_chat_response after the engine call, lines 301-307.
generate_chat_response(resp) ==
    LET bot_response == _extract_text_from_response(resp)
    IN  IF bot_response = << >> THEN Returned("None", << >>)
        ELSE Returned("str", bot_response)

Ops == {"estimate_calories_with_gemini", "generate_meal_plan_with_gemini",
        "generate_chat_response"}

\* What the public function `o` returns for the engine's result; the
\* wrappers hold no try/except, so a raising engine raises through them.
WrapperReturn(o, resp) ==
    IF resp.kind = "raised" THEN Returned("raised", << >>)
    ELSE CASE o = "estimate_calories_with_gemini" ->
                  estimate_calories_with_gemini(resp)
           [] o = "generate_meal_plan_with_gemini" ->
                  generate_meal_plan_with_gemini(resp)
           [] o = "generate_chat_response" -> generate_chat_response(resp)

\* ----------------------------------------------------------------- actions
InitVars == <<GEMINI_API_KEY, app_pc, init_return, available_models_names>>

\* A request handler calls public function `o` (src/blueprints/api.py:109,
\* 219, 375); the process has been initialised by then (src/app.py:28).
Invoke(i, o) ==
    /\ pc[i] = "idle"
    /\ app_pc = "serving"
    /\ pc' = [pc EXCEPT ![i] = "enter"]
    /\ op' = [op EXCEPT ![i] = o]
    /\ UNCHANGED <<InitVars, current_gemini_model, start_model_index,
                   model_switch_attempt, inner_retry_attempt, total_retries,
                   events, response, ret, probe, last_success, AppVars>>

\* _generate_with_retry, lines 124-137: fail fast without a model, else
\* find the start position and enter the outer loop.
Enter(i) ==
    /\ pc[i] = "enter"
    /\ IF NotInitialized(current_gemini_model)
       THEN /\ response' = [response EXCEPT ![i] = ReturnedNone]
            /\ pc' = [pc EXCEPT ![i] = "extract"]
            /\ UNCHANGED start_model_index
       ELSE /\ start_model_index' =
                 [start_model_index EXCEPT
                     ![i] = StartModelIndex(PREFERRED_MODELS,
                                            current_gemini_model)]
            /\ pc' = [pc EXCEPT ![i] = "slot"]
            /\ UNCHANGED response
    /\ UNCHANGED <<InitVars, current_gemini_model, op, model_switch_attempt,
                   inner_retry_attempt, total_retries, events, ret, probe, last_success, AppVars>>

\* Lines 140-144 and 188-189: the head of the outer loop.  When the range
\* is used up the engine returns None; else it picks the slot's model and
\* decides whether the model object has to be replaced.
SelectSlot(i) ==
    /\ pc[i] = "slot"
    /\ IF model_switch_attempt[i] >= max_model_switches
       THEN /\ response' = [response EXCEPT ![i] = ReturnedNone]
            /\ pc' = [pc EXCEPT ![i] = "extract"]
            /\ UNCHANGED inner_retry_attempt
       ELSE /\ pc' = [pc EXCEPT ![i] =
                 IF NeedsSwitch(ModelToUseName(start_model_index[i],
                                               model_switch_attempt[i]),
                                current_gemini_model)
                 THEN "switch" ELSE "call"]
            /\ inner_retry_attempt' = [inner_retry_attempt EXCEPT ![i] = 0]
            /\ UNCHANGED response
    /\ UNCHANGED <<InitVars, current_gemini_model, op, start_model_index,
                   model_switch_attempt, total_retries, events, ret, probe, last_success, AppVars>>

\* Faulty variant: the except clause lacks its `continue`, so the call is made
\* on the model object the reference held before.
Instantiate_without_continue(i) ==
    /\ pc[i] = "switch"
    /\ LET model_to_use_name == ModelToUseName(start_model_index[i],
                                               model_switch_attempt[i])
       IN  \E constructed \in BOOLEAN :
             /\ current_gemini_model' =
                    IF constructed THEN GenerativeModel(model_to_use_name)
                    ELSE current_gemini_model
             /\ events' = [events EXCEPT ![i] = Append(@,
                    Event(IF constructed THEN "switch" ELSE "switch_failed",
                          model_switch_attempt[i],
                          GenerativeModel(model_to_use_name), NoOutcome, 0))]
             /\ pc' = [pc EXCEPT ![i] = "call"]
    /\ UNCHANGED <<InitVars, op, start_model_index, model_switch_attempt,
                   inner_retry_attempt, total_retries, response, ret, probe,
                   last_success, AppVars>>

\* Lines 145-150: build the slot's model object; when the constructor
\* raises, `continue` with the next slot.
Instantiate(i) ==
    /\ pc[i] = "switch"
    /\ LET model_to_use_name == ModelToUseName(start_model_index[i],
                                               model_switch_attempt[i])
       IN  \E constructed \in BOOLEAN :
             IF constructed
             THEN /\ current_gemini_model' =
                         GenerativeModel(model_to_use_name)
                  /\ events' = [events EXCEPT ![i] = Append(@,
                         Event("switch", model_switch_attempt[i],
                               GenerativeModel(model_to_use_name), NoOutcome,
                               0))]
                  /\ pc' = [pc EXCEPT ![i] = "call"]
                  /\ UNCHANGED model_switch_attempt
             ELSE /\ events' = [events EXCEPT ![i] = Append(@,
                         Event("switch_failed", model_switch_attempt[i],
                               GenerativeModel(model_to_use_name), NoOutcome,
                               0))]
                  /\ model_switch_attempt' =
                         [model_switch_attempt EXCEPT ![i] = @ + 1]
                  /\ pc' = [pc EXCEPT ![i] = "slot"]
                  /\ UNCHANGED current_gemini_model
    /\ UNCHANGED <<InitVars, op, start_model_index, inner_retry_attempt,
                   total_retries, response, ret, probe, last_success, AppVars>>

\* Lines 153-186: one pass of the inner loop.  The call goes to whatever
\* model object the global reference holds at that moment.
Call(i) ==
    /\ pc[i] = "call"
    /\ \E outcome \in Outcomes :
         LET called == Event("call", model_switch_attempt[i],
                             current_gemini_model, outcome, 0)
             slept  == Event("sleep", model_switch_attempt[i],
                             current_gemini_model, NoOutcome,
                             Pow2(inner_retry_attempt[i]))
             d      == Dispatch(outcome)
             more   == inner_retry_attempt[i] + 1 < InnerAttempts
         IN  /\ total_retries' = [total_retries EXCEPT ![i] = @ + 1]
             /\ events' = [events EXCEPT ![i] =
                   IF d = "retry" /\ inner_retry_attempt[i] < 2
                   THEN Append(Append(@, called), slept)
                   ELSE Append(@, called)]
             /\ response' = [response EXCEPT ![i] =
                   CASE d = "return_response" ->
                            [kind |-> "response",
                             model |-> current_gemini_model,
                             call |-> total_retries[i] + 1,
                             body |-> outcome.body]
                     [] d = "return_none" -> ReturnedNone
                     [] d = "raise" -> Raised
                     [] OTHER -> @]
             /\ pc' = [pc EXCEPT ![i] =
                   CASE d \in {"return_response", "return_none", "raise"} ->
                            "extract"
                     [] d = "break" -> "slot"
                     [] d = "retry" -> IF more THEN "call" ELSE "slot"]
             /\ inner_retry_attempt' = [inner_retry_attempt EXCEPT ![i] =
                   IF d = "retry" /\ more THEN @ + 1 ELSE @]
             /\ model_switch_attempt' = [model_switch_attempt EXCEPT ![i] =
                   IF d = "break" \/ (d = "retry" /\ ~more)
                   THEN @ + 1 ELSE @]
    /\ UNCHANGED <<InitVars, current_gemini_model, op, start_model_index,
                   ret, probe, last_success, AppVars>>

\* The public function post-processes what the engine returned and
\* returns (lines 224-240, 282-289, 301-307).
Finish(i) ==
    /\ pc[i] = "extract"
    /\ ret' = [ret EXCEPT ![i] = WrapperReturn(op[i], response[i])]
    /\ pc' = [pc EXCEPT ![i] = "done"]
    /\ UNCHANGED <<InitVars, current_gemini_model, op, start_model_index,
                   model_switch_attempt, inner_retry_attempt, total_retries,
                   events, response, probe, last_success, AppVars>>

\* The request ends; the locals of the invocation are gone.  The history
\* notes which model answered, or that the invocation failed.
Return(i) ==
    /\ pc[i] = "done"
    /\ pc' = [pc EXCEPT ![i] = "idle"]
    /\ start_model_index' = [start_model_index EXCEPT ![i] = 0]
    /\ model_switch_attempt' = [model_switch_attempt EXCEPT ![i] = 0]
    /\ inner_retry_attempt' = [inner_retry_attempt EXCEPT ![i] = 0]
    /\ total_retries' = [total_retries EXCEPT ![i] = 0]
    /\ events' = [events EXCEPT ![i] = << >>]
    /\ response' = [response EXCEPT ![i] = NoResponse]
    /\ ret' = [ret EXCEPT ![i] = NotReturned]
    /\ last_success' =
           IF response[i].kind = "response"
           THEN [model |-> response[i].model, fresh |-> TRUE]
           ELSE [last_success EXCEPT !.fresh = FALSE]
    /\ UNCHANGED <<InitVars, current_gemini_model, op, probe, AppVars>>

\* ----------------------------------------------------------- specification
\* No response has been returned yet.
NoSuccess == [model |-> None, fresh |-> FALSE]

\* The web layer at rest: nobody logged in, empty tables, no request.
NoSession == [user_email |-> FALSE, user_id |-> 0,
              onboarding_complete |-> FALSE, role |-> "-"]
EmptyDb == [users |-> {}, meal_logs |-> << >>, chat_logs |-> {},
            conversations |-> {}, on_delete |-> "no_action"]
NoRequest == [handler |-> "-", phase |-> "none", invoked |-> FALSE,
              input |-> "-", db_fault |-> "none", before |-> EmptyDb]
NoHttp == [status |-> 0, success |-> "-", body |-> << >>]

\* A jsonify(...) answer with its status, or a redirect (success "-").
Http(status, success, body) ==
    [status |-> status, success |-> success, body |-> body]

WebLayerAtRest ==
    /\ session = NoSession
    /\ db = EmptyDb
    /\ request = NoRequest
    /\ http = NoHttp

NoProbe == [prefs |-> PREFERRED_MODELS, name |-> None, start |-> -1]

Init ==
    /\ GEMINI_API_KEY \in BOOLEAN
    /\ app_pc = "import"
    /\ init_return = "pending"
    /\ available_models_names = << >>
    /\ current_gemini_model = None
    /\ pc = [i \in Invs |-> "idle"]
    /\ op = [i \in Invs |-> "generate_chat_response"]
    /\ start_model_index = [i \in Invs |-> 0]
    /\ model_switch_attempt = [i \in Invs |-> 0]
    /\ inner_retry_attempt = [i \in Invs |-> 0]
    /\ total_retries = [i \in Invs |-> 0]
    /\ events = [i \in Invs |-> << >>]
    /\ response = [i \in Invs |-> NoResponse]
    /\ ret = [i \in Invs |-> NotReturned]
    /\ probe = NoProbe
    /\ last_success = NoSuccess
    /\ WebLayerAtRest

\* One request at a time: the invocations of a sequential run.
Sequential == {1}

Next ==
    \/ initialize_gemini_model
    \/ start_serving
    \/ \E i \in Sequential, o \in Ops : Invoke(i, o)
    \/ \E i \in Sequential : Enter(i)
    \/ \E i \in Sequential : SelectSlot(i)
    \/ \E i \in Sequential : Instantiate(i)
    \/ \E i \in Sequential : Call(i)
    \/ \E i \in Sequential : Finish(i)
    \/ \E i \in Sequential : Return(i)

Spec == Init /\ [][Next]_vars

\* The engine of a running request keeps running: every provider call and
\* every constructor call returns or raises, and the interpreter goes on.
EngineStep ==
    \E i \in Sequential :
        Enter(i) \/ SelectSlot(i) \/ Instantiate(i) \/ Call(i)

FairSpec == Spec /\ WF_vars(EngineStep)

\* ------------------------------------------------ two requests at a time
\* Provider outcomes of the runs with more than one request, one for each
\* thing the try/except does with a call: a response (returned), a blocked
\* prompt (None is returned) and quota exhaustion (break).
SampleOutcomes ==
    { [kind |-> "response", msg |-> NoMsg,
       body |-> [text_attr |-> "value", text |-> <<"9", "5">>,
                 parts |-> << >>]],
      [kind |-> "BlockedPromptException", msg |-> NoMsg, body |-> NoBody],
      [kind |-> "ResourceExhausted", msg |-> NoMsg, body |-> NoBody] }

\* One pass of the inner loop whose provider call ends in one of the
\* outcomes above.
SampleCall(i) ==
    /\ Call(i)
    /\ \E k \in (Len(events[i]) + 1)..Len(events'[i]) :
           /\ events'[i][k].ev = "call"
           /\ events'[i][k].out \in SampleOutcomes

\* The server dispatches requests to threads (spec section 5): the chat
\* requests of two threads run _generate_with_retry on the one module-level
\* current_gemini_model, interleaved at every statement that reads or
\* writes it.  Each thread serves one request.
ConcNext ==
    \/ initialize_gemini_model
    \/ start_serving
    \/ \E i \in Invs : Invoke(i, "generate_chat_response")
    \/ \E i \in Invs : Enter(i)
    \/ \E i \in Invs : SelectSlot(i)
    \/ \E i \in Invs : Instantiate(i)
    \/ \E i \in Invs : SampleCall(i)
    \/ \E i \in Invs : Finish(i)

ConcSpec == Init /\ [][ConcNext]_vars

\* ------------------------------------------- start-position probe (129-134)
\* Preference entries and model names the start-position loop is probed
\* with; one entry is contained in another, one name carries a preference
\* entry outside its last segment, one name has no "/".
PrefPool ==
    { <<"gemini", "2.5", "flash">>,
      <<"gemini", "2.5", "flash", "lite">>,
      <<"gemini", "flash", "latest">>,
      <<"gemini", "2.0", "flash", "exp">> }

ProbeNames ==
    NamePool \cup
    { <<"tunedModels", "/", "gemini", "flash", "latest", "/", "gemini", "pro">>,
      <<"gemini", "2.0", "flash", "exp">> }

PrefLists == SeqsUpTo(PrefPool, MaxPrefs) \ {<< >>}

InitProbe ==
    /\ GEMINI_API_KEY = TRUE
    /\ app_pc = "import"
    /\ init_return = "pending"
    /\ available_models_names = << >>
    /\ current_gemini_model = None
    /\ pc = [i \in Invs |-> "idle"]
    /\ op = [i \in Invs |-> "generate_chat_response"]
    /\ start_model_index = [i \in Invs |-> 0]
    /\ model_switch_attempt = [i \in Invs |-> 0]
    /\ inner_retry_attempt = [i \in Invs |-> 0]
    /\ total_retries = [i \in Invs |-> 0]
    /\ events = [i \in Invs |-> << >>]
    /\ response = [i \in Invs |-> NoResponse]
    /\ ret = [i \in Invs |-> NotReturned]
    /\ probe \in [prefs : PrefLists, name : ProbeNames, start : {-1}]
    /\ last_success = NoSuccess
    /\ WebLayerAtRest

\* Run lines 129-134 on the probe's preference list and model name.
ProbeStart ==
    /\ probe.start = -1
    /\ probe' = [probe EXCEPT !.start = StartModelIndex(probe.prefs,
                                                        probe.name)]
    /\ UNCHANGED <<GEMINI_API_KEY, app_pc, init_return,
                   available_models_names, current_gemini_model, pc, op,
                   start_model_index, model_switch_attempt,
                   inner_retry_attempt, total_retries, events, response,
                   ret, last_success, AppVars>>

SpecStart == InitProbe /\ [][ProbeStart]_vars

\* ------------------------------------------------ extraction probe (191-205)
\* Responses the extraction is probed with: texts with and without
\* surrounding whitespace, a top-level text next to parts, parts with and
\* without text, a text attribute whose read raises, and no response.
ExtractTexts == SeqsUpTo({" ", "o", "5"}, MaxText)

ExtractParts ==
    {[has_text |-> FALSE, text |-> NoText]} \cup
    {[has_text |-> TRUE, text |-> t] : t \in ExtractTexts}

ExtractBodies ==
    {[text_attr |-> "value", text |-> t, parts |-> ps] :
        t \in ExtractTexts, ps \in SeqsUpTo(ExtractParts, 1)} \cup
    {[text_attr |-> "raises", text |-> NoText, parts |-> ps] :
        ps \in SeqsUpTo(ExtractParts, 1)} \cup
    {[text_attr |-> "absent", text |-> NoText, parts |-> ps] :
        ps \in SeqsUpTo(ExtractParts, MaxParts)}

ExtractInputs ==
    {ReturnedNone} \cup
    {[kind |-> "response", model |-> None, call |-> 1, body |-> b] :
        b \in ExtractBodies}

InitExtract ==
    /\ GEMINI_API_KEY = TRUE
    /\ app_pc = "import"
    /\ init_return = "pending"
    /\ available_models_names = << >>
    /\ current_gemini_model = None
    /\ pc = [i \in Invs |-> "idle"]
    /\ op = [i \in Invs |-> "generate_chat_response"]
    /\ start_model_index = [i \in Invs |-> 0]
    /\ model_switch_attempt = [i \in Invs |-> 0]
    /\ inner_retry_attempt = [i \in Invs |-> 0]
    /\ total_retries = [i \in Invs |-> 0]
    /\ events = [i \in Invs |-> << >>]
    /\ response = [i \in Invs |-> NoResponse]
    /\ ret = [i \in Invs |-> NotReturned]
    /\ probe \in [resp : ExtractInputs, done : {FALSE}, text : {NoText}]
    /\ last_success = NoSuccess
    /\ WebLayerAtRest

\* Run _extract_text_from_response on the probe's response.
ProbeExtract ==
    /\ ~probe.done
    /\ probe' = [probe EXCEPT !.done = TRUE,
                              !.text = _extract_text_from_response(probe.resp)]
    /\ UNCHANGED <<GEMINI_API_KEY, app_pc, init_return,
                   available_models_names, current_gemini_model, pc, op,
                   start_model_index, model_switch_attempt,
                   inner_retry_attempt, total_retries, events, response,
                   ret, last_success, AppVars>>

SpecExtract == InitExtract /\ [][ProbeExtract]_vars

\* ------------------------------------------------ goal-label probe (256-263)
\* Weights in kg as user_profile_data.get(...) yields them: None, or a
\* number, written <<w>>.
MaxWeight == 9

Weights == {None} \cup {<<w>> : w \in 0..MaxWeight}

\* Faulty variant: the two comparisons swapped.
Goal_swapped(current_weight, target_weight) ==
    IF target_weight # None /\ current_weight # None
    THEN IF current_weight[1] > target_weight[1] THEN "gain weight"
         ELSE IF current_weight[1] < target_weight[1] THEN "lose weight"
         ELSE "maintain weight"
    ELSE "maintain general health and fitness"

\* generate_meal_plan_with_gemini, lines 256-263: the goal put in the prompt.
Goal(current_weight, target_weight) ==
    IF target_weight # None /\ current_weight # None
    THEN IF current_weight[1] < target_weight[1] THEN "gain weight"
         ELSE IF current_weight[1] > target_weight[1] THEN "lose weight"
         ELSE "maintain weight"
    ELSE "maintain general health and fitness"

InitGoal ==
    /\ GEMINI_API_KEY = TRUE
    /\ app_pc = "import"
    /\ init_return = "pending"
    /\ available_models_names = << >>
    /\ current_gemini_model = None
    /\ pc = [i \in Invs |-> "idle"]
    /\ op = [i \in Invs |-> "generate_chat_response"]
    /\ start_model_index = [i \in Invs |-> 0]
    /\ model_switch_attempt = [i \in Invs |-> 0]
    /\ inner_retry_attempt = [i \in Invs |-> 0]
    /\ total_retries = [i \in Invs |-> 0]
    /\ events = [i \in Invs |-> << >>]
    /\ response = [i \in Invs |-> NoResponse]
    /\ ret = [i \in Invs |-> NotReturned]
    /\ probe \in [current_weight : Weights, target_weight : Weights,
                  goal : {"-"}]
    /\ last_success = NoSuccess
    /\ WebLayerAtRest

\* Run lines 256-263 on the probe's weights.
ProbeGoal ==
    /\ probe.goal = "-"
    /\ probe' = [probe EXCEPT !.goal = Goal(probe.current_weight,
                                            probe.target_weight)]
    /\ UNCHANGED <<GEMINI_API_KEY, app_pc, init_return,
                   available_models_names, current_gemini_model, pc, op,
                   start_model_index, model_switch_attempt,
                   inner_retry_attempt, total_retries, events, response,
                   ret, last_success, AppVars>>

SpecGoal == InitGoal /\ [][ProbeGoal]_vars

\* --------------------------------------------- calorie-text probe (224-240)
\* Reply texts the calorie estimate is probed with: digits, a decimal
\* point, a minus sign, a letter and whitespace, in every order.
MaxReply == 4

CalorieTexts == SeqsUpTo({"0", "5", ".", "-", "k", " "}, MaxReply)

\* The engine returned a response whose .text is the given reply.
TextResponse(text) ==
    [kind |-> "response", model |-> None, call |-> 1,
     body |-> [text_attr |-> "value", text |-> text, parts |-> << >>]]

InitCalories ==
    /\ GEMINI_API_KEY = TRUE
    /\ app_pc = "import"
    /\ init_return = "pending"
    /\ available_models_names = << >>
    /\ current_gemini_model = None
    /\ pc = [i \in Invs |-> "idle"]
    /\ op = [i \in Invs |-> "estimate_calories_with_gemini"]
    /\ start_model_index = [i \in Invs |-> 0]
    /\ model_switch_attempt = [i \in Invs |-> 0]
    /\ inner_retry_attempt = [i \in Invs |-> 0]
    /\ total_retries = [i \in Invs |-> 0]
    /\ events = [i \in Invs |-> << >>]
    /\ response = [i \in Invs |-> NoResponse]
    /\ ret = [i \in Invs |-> NotReturned]
    /\ probe \in [text : CalorieTexts, calories : {NotReturned}]
    /\ last_success = NoSuccess
    /\ WebLayerAtRest

\* Run lines 224-240 on a response that carries the probe's text.
ProbeCalories ==
    /\ probe.calories = NotReturned
    /\ probe' = [probe EXCEPT !.calories =
                     estimate_calories_with_gemini(TextResponse(probe.text))]
    /\ UNCHANGED <<GEMINI_API_KEY, app_pc, init_return,
                   available_models_names, current_gemini_model, pc, op,
                   start_model_index, model_switch_attempt,
                   inner_retry_attempt, total_retries, events, response,
                   ret, last_success, AppVars>>

SpecCalories == InitCalories /\ [][ProbeCalories]_vars

\* ---------------------------------------------- handlers (blueprints/api.py)
\* Most rows of meal_logs a run lets the table grow to.
MaxMealLogs == 1

\* The one client's session as the login leaves it (auth.py:137-145).
LoggedIn(onboarding_complete) ==
    [user_email |-> TRUE, user_id |-> 1,
     onboarding_complete |-> onboarding_complete, role |-> "user"]

Sessions == {NoSession} \cup {LoggedIn(o) : o \in BOOLEAN}

\* The users table: no row for the client, or one.
UserRow(signup_method, profile_complete) ==
    [id |-> 1, signup_method |-> signup_method,
     profile_complete |-> profile_complete]

\* The decorator login_required (blueprints/main.py:21-42) for an endpoint
\* that is not one of the onboarding endpoints.
login_required(s) ==
    IF ~s.user_email THEN "redirect_login"
    ELSE IF ~s.onboarding_complete THEN "redirect_onboarding"
    ELSE "pass"

\* `SELECT ... FROM users WHERE id = %s`: the rows of that user.
UsersWithId(table, user_id) == {u \in table.users : u.id = user_id}

\* What a handler's database work meets: nothing, or an error when
\* connecting, when executing or committing the statement, or in the
\* SELECT that follows the commit.
DbFaults == {"none", "connect", "execute", "select"}

\* The request of invocation i starts the engine for public function o;
\* the locals of the previous invocation are gone.
StartInvocation(i, o) ==
    /\ pc' = [pc EXCEPT ![i] = "enter"]
    /\ op' = [op EXCEPT ![i] = o]
    /\ start_model_index' = [start_model_index EXCEPT ![i] = 0]
    /\ model_switch_attempt' = [model_switch_attempt EXCEPT ![i] = 0]
    /\ inner_retry_attempt' = [inner_retry_attempt EXCEPT ![i] = 0]
    /\ total_retries' = [total_retries EXCEPT ![i] = 0]
    /\ events' = [events EXCEPT ![i] = << >>]
    /\ response' = [response EXCEPT ![i] = NoResponse]
    /\ ret' = [ret EXCEPT ![i] = NotReturned]

EngineLocals == <<pc, op, start_model_index, model_switch_attempt,
                  inner_retry_attempt, total_retries, events, response, ret>>

\* The handler answers without having called the generation client.
AnswerAtOnce(handler, input, fault, answer) ==
    /\ request' = [handler |-> handler, phase |-> "responded",
                   invoked |-> FALSE, input |-> input, db_fault |-> fault,
                   before |-> db]
    /\ http' = answer
    /\ UNCHANGED EngineLocals

\* log_meal up to its call of estimate_calories_with_gemini, lines 88-111.
\* `details` says whether meal type, description and portion size are all
\* there.
log_meal_request(i) ==
    /\ app_pc = "serving"
    /\ pc[i] = "idle"
    /\ request.phase # "running"
    /\ Len(db.meal_logs) < MaxMealLogs
    /\ \E details \in BOOLEAN :
          IF login_required(session) # "pass"
          THEN AnswerAtOnce("log_meal", details, "none",
                            Http(302, "-", << >>))
          ELSE IF session.user_id = 0
          THEN AnswerAtOnce("log_meal", details, "none",
                            Http(401, FALSE, << >>))
          ELSE IF ~details
          THEN AnswerAtOnce("log_meal", details, "none",
                            Http(400, FALSE, << >>))
          ELSE /\ request' = [handler |-> "log_meal", phase |-> "running",
                              invoked |-> TRUE, input |-> details,
                              db_fault |-> "none", before |-> db]
               /\ http' = NoHttp
               /\ StartInvocation(i, "estimate_calories_with_gemini")
    /\ UNCHANGED <<InitVars, current_gemini_model, probe, last_success,
                   session, db>>

\* Faulty variant: an estimate of 0.0 is taken for a failure and nothing is
\* stored.
MealLogResult_rejects_zero(estimated_calories, fault) ==
    IF estimated_calories.kind = "raised" \/ fault \in {"connect", "execute"}
       \/ estimated_calories = Returned("float", ZeroFloat)
    THEN [insert |-> FALSE, status |-> 500, success |-> FALSE]
    ELSE IF fault = "select"
    THEN [insert |-> TRUE, status |-> 500, success |-> FALSE]
    ELSE [insert |-> TRUE, status |-> 200, success |-> TRUE]

\* log_meal after the estimate, lines 113-162: whether the row is stored
\* and what is answered.  An exception of the estimate or a database error
\* before the commit stores nothing; an error in the SELECT SUM after the
\* commit leaves the row stored and answers 500.
MealLogResult(estimated_calories, fault) ==
    IF estimated_calories.kind = "raised" \/ fault \in {"connect", "execute"}
    THEN [insert |-> FALSE, status |-> 500, success |-> FALSE]
    ELSE IF fault = "select"
    THEN [insert |-> TRUE, status |-> 500, success |-> FALSE]
    ELSE [insert |-> TRUE, status |-> 200, success |-> TRUE]

\* The row of lines 124-130.
MealLogRow(user_id, estimated_calories) ==
    [user_id |-> user_id, estimated_calories |-> estimated_calories]

\* log_meal from the return of the estimate on, lines 113-162.
log_meal_answer(i) ==
    /\ pc[i] = "done"
    /\ request.phase = "running"
    /\ request.handler = "log_meal"
    /\ \E fault \in DbFaults :
          LET result == MealLogResult(ret[i], fault)
          IN  /\ db' = IF result.insert
                       THEN [db EXCEPT !.meal_logs =
                                Append(@, MealLogRow(session.user_id,
                                                     ret[i].val))]
                       ELSE db
              /\ http' = Http(result.status, result.success,
                              IF result.success THEN ret[i].val ELSE << >>)
              /\ request' = [request EXCEPT !.phase = "responded",
                                            !.db_fault = fault]
    /\ pc' = [pc EXCEPT ![i] = "idle"]
    /\ UNCHANGED <<InitVars, current_gemini_model, op, start_model_index,
                   model_switch_attempt, inner_retry_attempt, total_retries,
                   events, response, ret, probe, last_success, session>>

\* The substrings line 221 looks for in the returned plan.
FailureMarkers == { <<"Error">>, <<"Failed">>, <<"Could", " ", "not">> }

\* Faulty variant: only the fixed sentence of the client counts as a failure.
IsFailureText_fixed_sentence_only(meal_plan) == meal_plan = FAILED_MEAL_PLAN

\* Faulty variant: only the first marker is looked for.
IsFailureText_error_only(meal_plan) == Contains(meal_plan, <<"Error">>)

\* Line 221: the returned string is taken for a failure.
IsFailureText(meal_plan) ==
    \E marker \in FailureMarkers : Contains(meal_plan, marker)

\* generate_meal_plan up to its call of generate_meal_plan_with_gemini,
\* lines 164-219.
generate_meal_plan_request(i) ==
    /\ app_pc = "serving"
    /\ pc[i] = "idle"
    /\ request.phase # "running"
    /\ \E fault \in {"none", "connect"} :
          IF login_required(session) # "pass"
          THEN AnswerAtOnce("generate_meal_plan", "-", "none",
                            Http(302, "-", << >>))
          ELSE IF session.user_id = 0
          THEN AnswerAtOnce("generate_meal_plan", "-", "none",
                            Http(401, FALSE, << >>))
          ELSE IF fault # "none"
          THEN AnswerAtOnce("generate_meal_plan", "-", fault,
                            Http(500, FALSE, << >>))
          ELSE IF UsersWithId(db, session.user_id) = {}
          THEN AnswerAtOnce("generate_meal_plan", "-", fault,
                            Http(404, FALSE, << >>))
          ELSE IF \E u \in UsersWithId(db, session.user_id) :
                      ~u.profile_complete
          THEN AnswerAtOnce("generate_meal_plan", "-", fault,
                            Http(400, FALSE, << >>))
          ELSE /\ request' = [handler |-> "generate_meal_plan",
                              phase |-> "running", invoked |-> TRUE,
                              input |-> "-", db_fault |-> fault,
                              before |-> db]
               /\ http' = NoHttp
               /\ StartInvocation(i, "generate_meal_plan_with_gemini")
    /\ UNCHANGED <<InitVars, current_gemini_model, probe, last_success,
                   session, db>>

\* generate_meal_plan from the return of the client on, lines 219-235.
generate_meal_plan_answer(i) ==
    /\ pc[i] = "done"
    /\ request.phase = "running"
    /\ request.handler = "generate_meal_plan"
    /\ http' = IF ret[i].kind = "raised" THEN Http(500, FALSE, << >>)
               ELSE IF IsFailureText(ret[i].val)
               THEN Http(500, FALSE, ret[i].val)
               ELSE Http(200, TRUE, ret[i].val)
    /\ request' = [request EXCEPT !.phase = "responded"]
    /\ pc' = [pc EXCEPT ![i] = "idle"]
    /\ UNCHANGED <<InitVars, current_gemini_model, op, start_model_index,
                   model_switch_attempt, inner_retry_attempt, total_retries,
                   events, response, ret, probe, last_success, session, db>>

UserTables ==
    {{}} \cup {{UserRow("manual", c)} : c \in BOOLEAN}

InitApi ==
    /\ GEMINI_API_KEY \in BOOLEAN
    /\ app_pc = "import"
    /\ init_return = "pending"
    /\ available_models_names = << >>
    /\ current_gemini_model = None
    /\ pc = [i \in Invs |-> "idle"]
    /\ op = [i \in Invs |-> "generate_chat_response"]
    /\ start_model_index = [i \in Invs |-> 0]
    /\ model_switch_attempt = [i \in Invs |-> 0]
    /\ inner_retry_attempt = [i \in Invs |-> 0]
    /\ total_retries = [i \in Invs |-> 0]
    /\ events = [i \in Invs |-> << >>]
    /\ response = [i \in Invs |-> NoResponse]
    /\ ret = [i \in Invs |-> NotReturned]
    /\ probe = NoProbe
    /\ last_success = NoSuccess
    /\ session \in Sessions
    /\ db \in {[EmptyDb EXCEPT !.users = u] : u \in UserTables}
    /\ request = NoRequest
    /\ http = NoHttp

NextApi ==
    \/ initialize_gemini_model
    \/ start_serving
    \/ \E i \in Sequential : log_meal_request(i)
    \/ \E i \in Sequential : generate_meal_plan_request(i)
    \/ \E i \in Sequential : Enter(i)
    \/ \E i \in Sequential : SelectSlot(i)
    \/ \E i \in Sequential : Instantiate(i)
    \/ \E i \in Sequential : Call(i)
    \/ \E i \in Sequential : Finish(i)
    \/ \E i \in Sequential : log_meal_answer(i)
    \/ \E i \in Sequential : generate_meal_plan_answer(i)

ApiSpec == InitApi /\ [][NextApi]_vars

\* ------------------------------------------ chat (blueprints/api.py, main.py)
\* Most rows a run lets chat_logs and conversations grow to.
MaxChatLogs == 4
MaxConversations == 2

\* One turn of a conversation: {"role": ..., "parts": [{"text": ...}]}.
Turn(role, text) == [role |-> role, text |-> text]

\* The opening of LOGIC_PERSONALITY_PROMPT (src/gemini_client.py:26).
LOGIC_PERSONALITY_PROMPT == <<"LOGIC's", " ", "Persona:">>

\* The two turns every chat request puts first (api.py:368-371).
PersonaTurns ==
    << Turn("user", LOGIC_PERSONALITY_PROMPT),
       Turn("model", <<"Understood.", " ", "I", " ", "am", " ", "LOGIC.",
                       " ", "How", " ", "can", " ", "I", " ", "help?">>) >>

\* The session of the chat page: the login's keys, current_conversation_id
\* (0 when the key is absent; the ids of the table start at 1) and
\* chat_history (empty when the key is absent: line 330 makes it so before
\* anything reads it).
ChatSession(s) ==
    [user_email |-> s.user_email, user_id |-> s.user_id,
     onboarding_complete |-> s.onboarding_complete, role |-> s.role,
     current_conversation_id |-> 0, chat_history |-> << >>]

\* request.get_json()['message']: nothing, or a message.
Messages == {<< >>, <<"hi">>}

NewChatTitle == <<"New", " ", "Chat">>

\* What the database work of /chat meets: nothing, an error when
\* connecting, an error in the INSERT of the user's message, or an error in
\* the INSERT of the reply after the client has returned.
ChatDbFaults == {"none", "connect", "execute", "execute_reply"}

\* Rows of conversations and chat_logs; a row's id is its position in the
\* table (AUTO_INCREMENT, no row is deleted here).
ConversationRow(user_id, title) == [user_id |-> user_id, title |-> title]

ChatLogRow(user_id, conversation_id, role, message) ==
    [user_id |-> user_id, conversation_id |-> conversation_id,
     role |-> role, message |-> message]

\* Lines 289-296: the rows of a conversation in id order, as turns.
formatted_history(chat_logs, conv_id) ==
    LET OfConversation(row) == row.conversation_id = conv_id
        logs == SelectSeq(chat_logs, OfConversation)
    IN  [k \in 1..Len(logs) |-> Turn(logs[k].role, logs[k].message)]

\* Faulty variant: the user's turn stays in the session.
Popped_nothing(chat_history) == chat_history

\* session['chat_history'].pop(), line 392.
Popped(chat_history) == SubSeq(chat_history, 1, Len(chat_history) - 1)

\* /logic, main.py:358-404: the page load forgets the current conversation
\* unless the database work raised before line 389.
logic ==
    /\ app_pc = "serving"
    /\ request.phase # "running"
    /\ \E fault \in {"none", "connect"} :
          IF login_required(session) # "pass"
          THEN /\ AnswerAtOnce("logic", "-", "none", Http(302, "-", << >>))
               /\ UNCHANGED session
          ELSE /\ AnswerAtOnce("logic", "-", fault, Http(200, "-", << >>))
               /\ session' =
                      IF fault = "none"
                      THEN [session EXCEPT !.current_conversation_id = 0,
                                           !.chat_history = << >>]
                      ELSE session
    /\ UNCHANGED <<InitVars, current_gemini_model, probe, last_success, db>>

\* /start-new-chat, api.py:240-270.
start_new_chat ==
    /\ app_pc = "serving"
    /\ request.phase # "running"
    /\ Len(db.conversations) < MaxConversations
    /\ \E fault \in {"none", "connect"} :
          IF login_required(session) # "pass"
          THEN /\ AnswerAtOnce("start_new_chat", "-", "none",
                               Http(302, "-", << >>))
               /\ UNCHANGED <<session, db>>
          ELSE IF fault # "none"
          THEN /\ AnswerAtOnce("start_new_chat", "-", fault,
                               Http(500, FALSE, << >>))
               /\ UNCHANGED <<session, db>>
          ELSE /\ AnswerAtOnce("start_new_chat", "-", fault,
                               Http(200, TRUE, << >>))
               /\ db' = [db EXCEPT !.conversations =
                            Append(@, ConversationRow(session.user_id,
                                                      NewChatTitle))]
               /\ session' =
                      [session EXCEPT
                          !.current_conversation_id =
                              Len(db.conversations) + 1,
                          !.chat_history = << >>]
    /\ UNCHANGED <<InitVars, current_gemini_model, probe, last_success>>

\* /get-conversation/<conv_id>, api.py:272-307.
get_conversation ==
    /\ app_pc = "serving"
    /\ request.phase # "running"
    /\ \E conv_id \in 1..MaxConversations, fault \in {"none", "connect"} :
          IF login_required(session) # "pass"
          THEN /\ AnswerAtOnce("get_conversation", conv_id, "none",
                               Http(302, "-", << >>))
               /\ UNCHANGED session
          ELSE IF fault # "none"
          THEN /\ AnswerAtOnce("get_conversation", conv_id, fault,
                               Http(500, FALSE, << >>))
               /\ UNCHANGED session
          ELSE IF ~(/\ conv_id <= Len(db.conversations)
                    /\ db.conversations[conv_id].user_id = session.user_id)
          THEN /\ AnswerAtOnce("get_conversation", conv_id, fault,
                               Http(403, FALSE, << >>))
               /\ UNCHANGED session
          ELSE /\ AnswerAtOnce("get_conversation", conv_id, fault,
                               Http(200, TRUE, << >>))
               /\ session' =
                      [session EXCEPT
                          !.chat_history =
                              formatted_history(db.chat_logs, conv_id),
                          !.current_conversation_id = conv_id]
    /\ UNCHANGED <<InitVars, current_gemini_model, probe, last_success, db>>

\* /chat up to its call of generate_chat_response, lines 309-375.
chat_request(i) ==
    /\ app_pc = "serving"
    /\ pc[i] = "idle"
    /\ request.phase # "running"
    /\ Len(db.chat_logs) + 2 <= MaxChatLogs
    /\ session.current_conversation_id = 0 =>
           Len(db.conversations) < MaxConversations
    /\ \E user_message \in Messages, fault \in ChatDbFaults :
          IF login_required(session) # "pass"
          THEN /\ AnswerAtOnce("chat", user_message, "none",
                               Http(302, "-", << >>))
               /\ UNCHANGED <<session, db>>
          ELSE IF user_message = << >>
          THEN /\ AnswerAtOnce("chat", user_message, "none",
                               Http(400, FALSE, << >>))
               /\ UNCHANGED <<session, db>>
          ELSE IF fault = "connect"
          THEN /\ AnswerAtOnce("chat", user_message, fault,
                               Http(500, FALSE, << >>))
               /\ UNCHANGED <<session, db>>
          ELSE LET conversation_id ==
                       IF session.current_conversation_id = 0
                       THEN Len(db.conversations) + 1
                       ELSE session.current_conversation_id
                   started ==
                       IF session.current_conversation_id = 0
                       THEN Append(db.conversations,
                                   ConversationRow(session.user_id,
                                                   NewChatTitle))
                       ELSE db.conversations
                   titled ==
                       [k \in 1..Len(started) |->
                           IF k = conversation_id /\
                              started[k].title = NewChatTitle
                           THEN [started[k] EXCEPT !.title = user_message]
                           ELSE started[k]]
                   user_turn == Turn("user", user_message)
               IN  IF fault = "execute"
                   THEN /\ AnswerAtOnce("chat", user_message, fault,
                                        Http(500, FALSE, << >>))
                        /\ db' = [db EXCEPT !.conversations = titled]
                        /\ session' =
                               [session EXCEPT
                                   !.current_conversation_id =
                                       conversation_id]
                   ELSE /\ db' = [db EXCEPT
                               !.conversations = titled,
                               !.chat_logs =
                                   Append(@, ChatLogRow(session.user_id,
                                                        conversation_id,
                                                        "user",
                                                        user_message))]
                        /\ session' =
                               [session EXCEPT
                                   !.current_conversation_id =
                                       conversation_id,
                                   !.chat_history = Append(@, user_turn)]
                        /\ request' =
                               [handler |-> "chat", phase |-> "running",
                                invoked |-> TRUE,
                                input |->
                                    [message |-> user_message,
                                     chat_history |-> session.chat_history,
                                     contents |->
                                         PersonaTurns \o
                                         Append(session.chat_history,
                                                user_turn)],
                                db_fault |-> fault, before |-> db]
                        /\ http' = NoHttp
                        /\ StartInvocation(i, "generate_chat_response")
    /\ UNCHANGED <<InitVars, current_gemini_model, probe, last_success>>

\* /chat from the return of the client on, lines 375-404; the locals of
\* the engine are gone, bot_response (ret) is what the handler holds.
chat_answer(i) ==
    /\ pc[i] = "done"
    /\ request.phase = "running"
    /\ request.handler = "chat"
    /\ LET bot_response == ret[i]
           conversation_id == session.current_conversation_id
       IN  IF bot_response.kind = "str" /\ request.db_fault = "none"
           THEN /\ db' = [db EXCEPT !.chat_logs =
                             Append(@, ChatLogRow(session.user_id,
                                                  conversation_id, "model",
                                                  bot_response.val))]
                /\ session' = [session EXCEPT !.chat_history =
                                  Append(@, Turn("model", bot_response.val))]
                /\ http' = Http(200, TRUE, bot_response.val)
           ELSE IF bot_response.kind = "None"
           THEN /\ session' = [session EXCEPT !.chat_history = Popped(@)]
                /\ http' = Http(503, FALSE, << >>)
                /\ UNCHANGED db
           ELSE /\ http' = Http(500, FALSE, << >>)
                /\ UNCHANGED <<session, db>>
    /\ request' = [request EXCEPT !.phase = "responded"]
    /\ pc' = [pc EXCEPT ![i] = "idle"]
    /\ start_model_index' = [start_model_index EXCEPT ![i] = 0]
    /\ model_switch_attempt' = [model_switch_attempt EXCEPT ![i] = 0]
    /\ inner_retry_attempt' = [inner_retry_attempt EXCEPT ![i] = 0]
    /\ total_retries' = [total_retries EXCEPT ![i] = 0]
    /\ events' = [events EXCEPT ![i] = << >>]
    /\ response' = [response EXCEPT ![i] = NoResponse]
    /\ UNCHANGED <<InitVars, current_gemini_model, op, ret, probe,
                   last_success>>

InitChat ==
    /\ GEMINI_API_KEY \in BOOLEAN
    /\ app_pc = "import"
    /\ init_return = "pending"
    /\ available_models_names = << >>
    /\ current_gemini_model = None
    /\ pc = [i \in Invs |-> "idle"]
    /\ op = [i \in Invs |-> "generate_chat_response"]
    /\ start_model_index = [i \in Invs |-> 0]
    /\ model_switch_attempt = [i \in Invs |-> 0]
    /\ inner_retry_attempt = [i \in Invs |-> 0]
    /\ total_retries = [i \in Invs |-> 0]
    /\ events = [i \in Invs |-> << >>]
    /\ response = [i \in Invs |-> NoResponse]
    /\ ret = [i \in Invs |-> NotReturned]
    /\ probe = NoProbe
    /\ last_success = NoSuccess
    /\ session \in {ChatSession(s) : s \in Sessions}
    /\ db = [EmptyDb EXCEPT !.users = {UserRow("manual", TRUE)},
                            !.chat_logs = << >>, !.conversations = << >>]
    /\ request = NoRequest
    /\ http = NoHttp

NextChat ==
    \/ initialize_gemini_model
    \/ start_serving
    \/ logic
    \/ start_new_chat
    \/ get_conversation
    \/ \E i \in Sequential : chat_request(i)
    \/ \E i \in Sequential : Enter(i)
    \/ \E i \in Sequential : SelectSlot(i)
    \/ \E i \in Sequential : Instantiate(i)
    \/ \E i \in Sequential : SampleCall(i)
    \/ \E i \in Sequential : Finish(i)
    \/ \E i \in Sequential : chat_answer(i)

ChatSpec == InitChat /\ [][NextChat]_vars

\* ------------------------------------------------------- account deletion
\* The users of the account handlers: the client (1) and another user (2).
UserIds == {1, 2}

\* What the schema, which is not part of the repository, does with the
\* chat_logs and conversations rows of a user whose users row is deleted:
\* nothing (no foreign key), refuse the DELETE, or delete them too.
OnDeleteModes == {"no_action", "restrict", "cascade"}

\* The rows of `user_id` in a table kept as a set.
RowsOf(rows, user_id) == {r \in rows : r.user_id = user_id}

\* `DELETE FROM meal_logs WHERE user_id = %s` on the sequence of rows.
RECURSIVE WithoutUser(_, _)
WithoutUser(logs, user_id) ==
    IF logs = << >> THEN << >>
    ELSE IF Head(logs).user_id = user_id
         THEN WithoutUser(Tail(logs), user_id)
         ELSE <<Head(logs)>> \o WithoutUser(Tail(logs), user_id)

\* `DELETE FROM users WHERE id = %s` is refused by the schema.
DeleteRefused(table, user_id) ==
    /\ table.on_delete = "restrict"
    /\ RowsOf(table.chat_logs, user_id) \cup
       RowsOf(table.conversations, user_id) # {}

\* The two DELETE statements of delete_account, api.py:617-618, committed.
DeleteOwnAccount(table, user_id) ==
    [table EXCEPT
        !.meal_logs = WithoutUser(@, user_id),
        !.users = @ \ UsersWithId(table, user_id),
        !.chat_logs = IF table.on_delete = "cascade"
                      THEN @ \ RowsOf(@, user_id) ELSE @,
        !.conversations = IF table.on_delete = "cascade"
                          THEN @ \ RowsOf(@, user_id) ELSE @]

\* The four DELETE statements of delete_user, admin.py:169-172, committed.
DeleteUserAndLogs(table, user_id) ==
    [table EXCEPT
        !.meal_logs = WithoutUser(@, user_id),
        !.chat_logs = @ \ RowsOf(@, user_id),
        !.conversations = @ \ RowsOf(@, user_id),
        !.users = @ \ UsersWithId(table, user_id)]

AccountAnswer(handler, input, fault, answer) ==
    /\ request' = [handler |-> handler, phase |-> "responded",
                   invoked |-> FALSE, input |-> input, db_fault |-> fault,
                   before |-> db]
    /\ http' = answer

\* delete_account, api.py:593-633.  `password` is what the request
\* carries: none, the user's password, or another one.
delete_account ==
    \E password \in {"none", "right", "wrong"},
       fault \in {"none", "connect", "execute"} :
        LET user_id == session.user_id
            input   == [password |-> password, user_id |-> user_id]
            user    == UsersWithId(db, user_id)
            Refuse(status) ==
                /\ AccountAnswer("delete_account", input, "none",
                                 Http(status, FALSE, << >>))
                /\ UNCHANGED <<session, db>>
        IN  /\ app_pc = "serving"
            /\ IF login_required(session) # "pass"
               THEN /\ AccountAnswer("delete_account", input, "none",
                                     Http(302, "-", << >>))
                    /\ UNCHANGED <<session, db>>
               ELSE IF user_id = 0 THEN Refuse(401)
               ELSE IF fault = "connect"
               THEN /\ AccountAnswer("delete_account", input, fault,
                                     Http(500, FALSE, << >>))
                    /\ UNCHANGED <<session, db>>
               ELSE IF user = {} THEN Refuse(404)
               ELSE IF (\E u \in user : u.signup_method = "manual")
                       /\ password = "none"
               THEN Refuse(400)
               ELSE IF (\E u \in user : u.signup_method = "manual")
                       /\ password = "wrong"
               THEN Refuse(403)
               ELSE IF fault = "execute" \/ DeleteRefused(db, user_id)
               THEN /\ AccountAnswer("delete_account", input,
                                     IF fault = "execute" THEN fault
                                     ELSE "integrity",
                                     Http(500, FALSE, << >>))
                    /\ UNCHANGED <<session, db>>
               ELSE /\ db' = DeleteOwnAccount(db, user_id)
                    /\ session' = NoSession
                    /\ AccountAnswer("delete_account", input, "none",
                                     Http(200, TRUE, << >>))
            /\ UNCHANGED <<InitVars, current_gemini_model, EngineLocals,
                           probe, last_success>>

\* The decorator admin_required, admin.py:14-29.
admin_required(s) ==
    IF s.user_id = 0 THEN "redirect_login"
    ELSE IF s.role # "admin" THEN "redirect_dashboard"
    ELSE "pass"

\* delete_user, admin.py:155-186: an administrator deletes the account
\* `target`; every path ends in a redirect.
delete_user ==
    \E target \in UserIds, fault \in {"none", "connect", "execute"} :
        /\ app_pc = "serving"
        /\ db' = IF /\ admin_required(session) = "pass"
                    /\ target # session.user_id
                    /\ fault = "none"
                 THEN DeleteUserAndLogs(db, target)
                 ELSE db
        /\ AccountAnswer("delete_user",
                         [password |-> "none", user_id |-> target],
                         IF /\ admin_required(session) = "pass"
                            /\ target # session.user_id
                         THEN fault ELSE "none",
                         Http(302, "-", << >>))
        /\ UNCHANGED <<InitVars, current_gemini_model, EngineLocals, probe,
                       last_success, session>>

\* The sessions the account handlers are run with: nobody, the client as a
\* user, the client as an administrator.
AccountSessions ==
    {NoSession} \cup {LoggedIn(o) : o \in BOOLEAN} \cup
    {[LoggedIn(TRUE) EXCEPT !.role = "admin"]}

\* Tables in which every row belongs to a user of the users table.
AccountTables ==
    {[users |-> us, meal_logs |-> ml, chat_logs |-> cl,
      conversations |-> cv, on_delete |-> od] :
        us \in {rows \in SUBSET ({UserRow(m, TRUE) : m \in {"manual", "google"}}
                                  \cup {[id |-> 2, signup_method |-> "manual",
                                         profile_complete |-> TRUE]}) :
                   Cardinality(UsersWithId([users |-> rows], 1)) <= 1},
        ml \in SeqsUpTo({MealLogRow(u, ZeroFloat) : u \in UserIds},
                        MaxMealLogs),
        cl \in SUBSET {[id |-> u, user_id |-> u] : u \in UserIds},
        cv \in SUBSET {[id |-> u, user_id |-> u] : u \in UserIds},
        od \in OnDeleteModes}

OwnersExist(table) ==
    LET ids == {u.id : u \in table.users}
    IN  /\ \A k \in 1..Len(table.meal_logs) : table.meal_logs[k].user_id \in ids
        /\ \A r \in table.chat_logs \cup table.conversations :
               r.user_id \in ids

InitAccount ==
    /\ GEMINI_API_KEY = TRUE
    /\ app_pc = "serving"
    /\ init_return = "False"
    /\ available_models_names = << >>
    /\ current_gemini_model = None
    /\ pc = [i \in Invs |-> "idle"]
    /\ op = [i \in Invs |-> "generate_chat_response"]
    /\ start_model_index = [i \in Invs |-> 0]
    /\ model_switch_attempt = [i \in Invs |-> 0]
    /\ inner_retry_attempt = [i \in Invs |-> 0]
    /\ total_retries = [i \in Invs |-> 0]
    /\ events = [i \in Invs |-> << >>]
    /\ response = [i \in Invs |-> NoResponse]
    /\ ret = [i \in Invs |-> NotReturned]
    /\ probe = NoProbe
    /\ last_success = NoSuccess
    /\ session \in AccountSessions
    /\ db \in {t \in AccountTables : OwnersExist(t)}
    /\ request = NoRequest
    /\ http = NoHttp

NextAccount == delete_account \/ delete_user

AccountSpec == InitAccount /\ [][NextAccount]_vars

\* =================================================================== claims
IsCall(e) == e.ev = "call"

\* The provider calls of invocation i, in order.
Calls(i) == SelectSeq(events[i], IsCall)

\* The engine of invocation i has returned.
EngineReturned(i) == pc[i] \in {"extract", "done"}

n_models == Len(PREFERRED_MODELS)

\* 0-based positions of the preference entries contained in a name.
EntriesIn(prefs, name) ==
    {j \in 0..(Len(prefs) - 1) : Contains(name, prefs[j + 1])}

IsAdvanceError(e) ==
    \/ e.out.kind \in {"BrokenResponseError", "ResourceExhausted"}
    \/ e.out.kind = "Exception" /\ IsSwitchMessage(e.out.msg)

IsPolicyStop(e) ==
    e.ev = "call" /\
    e.out.kind \in {"BlockedPromptException", "StopCandidateException"}

\* C1: whatever the provider does, one invocation of the engine makes at
\* most len(PREFERRED_MODELS) * 3 generate_content calls; the bound comes
\* from at most len(PREFERRED_MODELS) slots with at most 3 calls each, and
\* the code's own counter total_retries counts exactly these calls.
C1_CallBound ==
    \A i \in Invs :
        /\ Len(Calls(i)) <= n_models * 3
        /\ total_retries[i] = Len(Calls(i))
        /\ \A k \in 1..Len(Calls(i)) : Calls(i)[k].slot \in 0..(n_models - 1)
        /\ \A sl \in 0..(n_models - 1) :
               Cardinality({k \in 1..Len(Calls(i)) : Calls(i)[k].slot = sl})
                   <= 3

\* An invocation that used every slot and called the provider in each.
C1_Witness ==
    \E i \in Invs :
        /\ pc[i] = "done"
        /\ Len(Calls(i)) = n_models
        /\ response[i] = ReturnedNone

\* C2: a blocked or stopped call ends the invocation at once with the
\* failure outcome: it is the last thing the invocation did (no further
\* call, no model switch), and a block on the first call means exactly one
\* provider call.
C2_BlockedStopsAtOnce ==
    \A i \in Invs :
        /\ \A k \in 1..Len(events[i]) :
               IsPolicyStop(events[i][k]) =>
                   /\ k = Len(events[i])
                   /\ EngineReturned(i)
                   /\ response[i] = ReturnedNone
        /\ (Calls(i) # << >> /\ IsPolicyStop(Calls(i)[1])) =>
               (Len(Calls(i)) = 1 /\ total_retries[i] = 1)

\* The first call of an invocation was blocked and the wrapper returned.
C2_Witness ==
    \E i \in Invs :
        /\ pc[i] = "done"
        /\ Len(Calls(i)) = 1
        /\ Calls(i)[1].out.kind = "BlockedPromptException"
        /\ response[i] = ReturnedNone

\* The preference entry after the first one contained in `name`, cyclically.
NextEntryAfter(name) ==
    PREFERRED_MODELS[((Min(EntriesIn(PREFERRED_MODELS, name)) + 1)
                          % n_models) + 1]

\* C3: when the first call, on the active model A, fails with quota
\* exhaustion and the next model B of the preference order answers with a
\* response, the engine returns B's response after exactly one call to A
\* and at least one call to B.
C3_QuotaThenNextModel ==
    \A i \in Invs :
        (/\ Calls(i) # << >>
         /\ Calls(i)[1].out.kind = "ResourceExhausted"
         /\ EntriesIn(PREFERRED_MODELS, Calls(i)[1].model) # {}
         /\ \E k \in 1..Len(Calls(i)) :
               /\ Contains(Calls(i)[k].model,
                           NextEntryAfter(Calls(i)[1].model))
               /\ Calls(i)[k].out.kind = "response")
        => LET A == Calls(i)[1].model
               B == GenerativeModel(NextEntryAfter(A))
           IN  /\ A # B
               /\ EngineReturned(i)
               /\ response[i].kind = "response"
               /\ response[i].model = B
               /\ Calls(i)[response[i].call].model = B
               /\ Calls(i)[response[i].call].out.kind = "response"
               /\ Cardinality({k \in 1..Len(Calls(i)) :
                                  Calls(i)[k].model = A}) = 1
               /\ Cardinality({k \in 1..Len(Calls(i)) :
                                  Calls(i)[k].model = B}) >= 1

\* Quota exhaustion on the active model, then a response of the next one.
C3_Witness ==
    \E i \in Invs :
        /\ pc[i] = "done"
        /\ Len(Calls(i)) = 2
        /\ Calls(i)[1].out.kind = "ResourceExhausted"
        /\ Calls(i)[1].model = <<"models", "/", "gemini", "flash", "latest">>
        /\ Calls(i)[2].out.kind = "response"
        /\ Calls(i)[2].model =
               <<"models", "/", "gemini", "2.0", "flash", "exp">>
        /\ response[i].kind = "response"
        /\ response[i].model = Calls(i)[2].model

\* C4: for every preference list and every model name, the start position
\* is the index of the first preference entry that is a substring of the
\* last "/"-separated segment of the name, and 0 when no entry is.
C4_StartPosition ==
    probe.start # -1 =>
        LET hits == EntriesIn(probe.prefs, LastSegment(probe.name))
        IN  probe.start = IF hits = {} THEN 0 ELSE Min(hits)

\* A probe whose name holds two entries of the list, the first of them not
\* at the top of the list.
C4_Witness ==
    /\ probe.start = 1
    /\ Cardinality(EntriesIn(probe.prefs, LastSegment(probe.name))) = 2

\* The preference entry of slot k for start position s.
EntryOfSlot(s, k) == PREFERRED_MODELS[((s + k) % n_models) + 1]

\* Every switch and every call of invocation i concerns the model of its
\* slot's preference entry, and every entry has exactly one slot.
SlotsFollowPreferenceCycle(i) ==
    /\ \A k \in 1..Len(events[i]) :
           /\ events[i][k].slot \in 0..(n_models - 1)
           /\ Contains(events[i][k].model,
                       EntryOfSlot(start_model_index[i], events[i][k].slot))
    /\ \A j \in 0..(n_models - 1) :
           Cardinality({k \in 0..(max_model_switches - 1) :
                           (start_model_index[i] + k) % n_models = j}) = 1

\* The engine of invocation i went through every slot without a response
\* or a terminal error: every call it made failed with an advance error.
AllSlotsAdvanced(i) ==
    /\ EngineReturned(i)
    /\ model_switch_attempt[i] = n_models
    /\ \A k \in 1..Len(Calls(i)) : IsAdvanceError(Calls(i)[k])

\* Each of the n models was called exactly once, in the cyclic order.
EachModelCalledOnceInOrder(i) ==
    /\ Len(Calls(i)) = n_models
    /\ \A k \in 1..Len(Calls(i)) :
           /\ Calls(i)[k].slot = k - 1
           /\ Contains(Calls(i)[k].model,
                       EntryOfSlot(start_model_index[i], k - 1))

NoSwitchFailed(i) ==
    \A k \in 1..Len(events[i]) : events[i][k].ev # "switch_failed"

\* C5 as stated: slot k belongs to preference entry (s + k) mod n, every
\* entry gets exactly one slot, and when every call fails with an advance
\* error each of the n models is called exactly once, in cyclic order.
C5_AsStated ==
    \A i \in Invs :
        /\ SlotsFollowPreferenceCycle(i)
        /\ (AllSlotsAdvanced(i) /\ Calls(i) # << >>) =>
               EachModelCalledOnceInOrder(i)

\* C5, amended: slot k belongs to preference entry (s + k) mod n, every
\* entry gets exactly one slot, no slot is called twice and the calls
\* follow the cyclic order; when no model instantiation fails and every
\* call fails with an advance error, each of the n models is called
\* exactly once, in cyclic order.
C5_CyclicSlots ==
    \A i \in Invs :
        /\ SlotsFollowPreferenceCycle(i)
        /\ \A k \in 1..Len(Calls(i)), l \in 1..Len(Calls(i)) :
               k < l => Calls(i)[k].slot < Calls(i)[l].slot
        /\ (AllSlotsAdvanced(i) /\ NoSwitchFailed(i)) =>
               EachModelCalledOnceInOrder(i)

\* All slots used up from start position 1: the calls went to entries
\* 1, 2, 0 in that order.
C5_Witness ==
    \E i \in Invs :
        /\ AllSlotsAdvanced(i)
        /\ NoSwitchFailed(i)
        /\ start_model_index[i] = 1
        /\ Len(Calls(i)) = 3
        /\ Contains(Calls(i)[3].model, PREFERRED_MODELS[1])

\* C6: the engine returns a response exactly when some provider call of
\* the invocation returned without raising; it is that call's response,
\* and that call is the last thing the invocation did.
C6_SingleSuccessExit ==
    \A i \in Invs :
        /\ EngineReturned(i) =>
               (response[i].kind = "response" <=>
                    \E k \in 1..Len(Calls(i)) :
                        Calls(i)[k].out.kind = "response")
        /\ \A k \in 1..Len(events[i]) :
               (events[i][k].ev = "call" /\
                events[i][k].out.kind = "response") =>
                   /\ k = Len(events[i])
                   /\ EngineReturned(i)
                   /\ response[i].kind = "response"
                   /\ response[i].call = Len(Calls(i))
                   /\ response[i].model = events[i][k].model
                   /\ response[i].body = events[i][k].out.body

\* A response on the second call, after a failed first one.
C6_Witness ==
    \E i \in Invs :
        /\ pc[i] = "done"
        /\ Len(Calls(i)) = 2
        /\ Calls(i)[2].out.kind = "response"
        /\ response[i].kind = "response"
        /\ response[i].call = 2

\* C7: every invocation of the engine returns, whatever the calls and the
\* constructors do, and it returns None when no call returned a response.
C7_Terminates ==
    /\ \A i \in Invs : (pc[i] = "enter") ~> EngineReturned(i)
    /\ [](\A i \in Invs :
            (EngineReturned(i) /\
             \A k \in 1..Len(Calls(i)) : Calls(i)[k].out.kind # "response")
            => response[i] = ReturnedNone)

\* An invocation that saw a failed switch and failing calls, and returned
\* None.
C7_Witness ==
    \E i \in Invs :
        /\ EngineReturned(i)
        /\ response[i] = ReturnedNone
        /\ ~NoSwitchFailed(i)
        /\ Len(Calls(i)) = 2

\* The value a public function returns when the engine gave no response.
DefaultReturn(o) ==
    CASE o = "estimate_calories_with_gemini" -> Returned("float", ZeroFloat)
      [] o = "generate_meal_plan_with_gemini" ->
             Returned("str", FAILED_MEAL_PLAN)
      [] o = "generate_chat_response" -> Returned("None", << >>)

\* C8: for every class of provider failure and for a failing model
\* instantiation the three public functions return a value (0.0, the fixed
\* sentence, None); no exception reaches the caller.
C8_NeverRaises ==
    \A i \in Invs :
        /\ response[i].kind # "raised"
        /\ ret[i].kind # "raised"
        /\ pc[i] = "done" =>
               /\ ret[i].kind \in {"float", "str", "None"}
               /\ response[i].kind # "response" => ret[i] = DefaultReturn(op[i])

\* estimate_calories_with_gemini returned 0.0 after a failed switch and an
\* unclassified error.
C8_Witness ==
    \E i \in Invs :
        /\ pc[i] = "done"
        /\ op[i] = "estimate_calories_with_gemini"
        /\ ret[i] = Returned("float", ZeroFloat)
        /\ ~NoSwitchFailed(i)
        /\ Calls(i) # << >>
        /\ Calls(i)[Len(Calls(i))].out.kind = "Exception"
        /\ ~IsSwitchMessage(Calls(i)[Len(Calls(i))].out.msg)

\* Some available name contains preference entry j (0-based).
EntryAvailable(j) ==
    \E k \in 1..Len(available_models_names) :
        Contains(available_models_names[k], PREFERRED_MODELS[j + 1])

\* C9: a successful initialisation sets the active model to an available
\* generation-capable model; when some preference entry is a substring of
\* an available name, the model's name contains the earliest such entry.
C9_EarliestPreferenceWins ==
    (app_pc = "initialized" /\ init_return = "True") =>
        /\ \E k \in 1..Len(available_models_names) :
               current_gemini_model = available_models_names[k]
        /\ \A j \in 0..(n_models - 1) :
               (EntryAvailable(j) /\ \A h \in 0..(j - 1) : ~EntryAvailable(h))
               => Contains(current_gemini_model, PREFERRED_MODELS[j + 1])

\* The second entry was chosen although a model of the third entry was
\* listed first.
C9_Witness ==
    /\ app_pc = "initialized"
    /\ init_return = "True"
    /\ Len(available_models_names) = 2
    /\ Contains(available_models_names[1], PREFERRED_MODELS[3])
    /\ current_gemini_model = available_models_names[2]
    /\ Contains(current_gemini_model, PREFERRED_MODELS[2])

\* C10: a failed initialisation (no credential, a raising listing, no
\* generation-capable model) does not stop the start-up, leaves the active
\* model unset, and every later invocation returns None without a provider
\* call.
C10_FailedInitFailsFast ==
    /\ (app_pc # "import" /\ ~GEMINI_API_KEY) => init_return = "False"
    /\ (app_pc = "initialized" /\ available_models_names = << >>) =>
           init_return = "False"
    /\ init_return = "False" =>
           /\ current_gemini_model = None
           /\ app_pc = "initialized" => ENABLED start_serving
           /\ \A i \in Invs :
                  /\ events[i] = << >>
                  /\ total_retries[i] = 0
                  /\ pc[i] \notin {"slot", "switch", "call"}
                  /\ EngineReturned(i) => response[i] = ReturnedNone

\* With the credential set the initialisation failed, and a later chat
\* request got None.
C10_Witness ==
    \E i \in Invs :
        /\ GEMINI_API_KEY
        /\ init_return = "False"
        /\ app_pc = "serving"
        /\ pc[i] = "done"
        /\ events[i] = << >>
        /\ ret[i] = Returned("None", << >>)

\* The text a response carries before any post-processing: that of its
\* top-level text field, else that of its first text-bearing part; nothing
\* when the engine gave no response or the text cannot be read.
SentText(resp) ==
    IF resp.kind # "response" THEN << >>
    ELSE CASE resp.body.text_attr = "value" -> resp.body.text
           [] resp.body.text_attr = "raises" -> << >>
           [] resp.body.text_attr = "absent" ->
                  IF \E p \in 1..Len(resp.body.parts) :
                         resp.body.parts[p].has_text
                  THEN resp.body.parts[
                           Min({p \in 1..Len(resp.body.parts) :
                                   resp.body.parts[p].has_text})].text
                  ELSE << >>

IsBlank(s) == \A p \in 1..Len(s) : s[p] \in Whitespace

HasDigit(s) == \E p \in 1..Len(s) : s[p] \in Digits

\* C11: estimate_calories_with_gemini returns exactly 0.0 whenever the
\* engine gave no response, the text of the response is empty once its
\* surrounding whitespace is dropped, or the text holds no numeral.
C11_FailToZero ==
    \A i \in Invs :
        (pc[i] = "done" /\ op[i] = "estimate_calories_with_gemini") =>
            ((\/ response[i].kind # "response"
              \/ IsBlank(SentText(response[i]))
              \/ ~HasDigit(SentText(response[i])))
             => ret[i] = Returned("float", ZeroFloat))

\* A response whose text has letters and no digit was turned into 0.0.
C11_Witness ==
    \E i \in Invs :
        /\ pc[i] = "done"
        /\ op[i] = "estimate_calories_with_gemini"
        /\ response[i].kind = "response"
        /\ ~IsBlank(SentText(response[i]))
        /\ ~HasDigit(SentText(response[i]))
        /\ ret[i] = Returned("float", ZeroFloat)

\* A minus sign directly followed by digits, and nothing else.
IsNegativeNumber(s) ==
    /\ Len(s) >= 2
    /\ s[1] = "-"
    /\ \A p \in 2..Len(s) : s[p] \in Digits

\* C12: estimate_calories_with_gemini returns 0.0 when the text of the
\* response is a negative number, a minus sign directly followed by a
\* numeral such as "-50".
C12_NegativeIsZero ==
    \A i \in Invs :
        (/\ pc[i] = "done"
         /\ op[i] = "estimate_calories_with_gemini"
         /\ IsNegativeNumber(SentText(response[i])))
        => ret[i] = Returned("float", ZeroFloat)

\* t is s without its leading and trailing whitespace.
IsStripOf(t, s) ==
    /\ t # << >> => (t[1] \notin Whitespace /\ t[Len(t)] \notin Whitespace)
    /\ \E a \in 0..Len(s) :
           /\ a + Len(t) <= Len(s)
           /\ SubSeq(s, a + 1, a + Len(t)) = t
           /\ \A p \in 1..a : s[p] \in Whitespace
           /\ \A p \in (a + Len(t) + 1)..Len(s) : s[p] \in Whitespace

\* C14: generate_chat_response returns None whenever the engine gave no
\* response or the text of the response is empty once stripped, and None
\* is not the failure sentence of the meal-plan path; otherwise it returns
\* the stripped text of the response.
C14_ChatUnavailableMarker ==
    \A i \in Invs :
        (pc[i] = "done" /\ op[i] = "generate_chat_response") =>
            IF response[i].kind # "response" \/ IsBlank(SentText(response[i]))
            THEN /\ ret[i] = Returned("None", << >>)
                 /\ ret[i].kind # "str"
                 /\ ret[i].val # FAILED_MEAL_PLAN
            ELSE /\ ret[i].kind = "str"
                 /\ ret[i].val # << >>
                 /\ IsStripOf(ret[i].val, SentText(response[i]))

\* The provider answered a chat request with whitespace only, and the
\* caller got None.
C14_Witness ==
    \E i \in Invs :
        /\ pc[i] = "done"
        /\ op[i] = "generate_chat_response"
        /\ response[i].kind = "response"
        /\ SentText(response[i]) # << >>
        /\ IsBlank(SentText(response[i]))
        /\ ret[i] = Returned("None", << >>)

\* A call that raised an error of none of the classes the engine knows.
IsUnclassified(e) ==
    /\ e.ev = "call"
    /\ e.out.kind = "Exception"
    /\ ~Contains(Lower(e.out.msg), <<"not", "found">>)
    /\ ~Contains(Lower(e.out.msg), <<"bad", "request">>)
    /\ ~Contains(Lower(e.out.msg), <<"connection", "error">>)

\* C20: a call that raises an error that is not blocked, stopped,
\* malformed, quota exhaustion or a message with "not found", "bad
\* request" or "connection error" ends the invocation at once with the
\* failure outcome: it is the last thing the invocation did, so no call
\* and no model switch follows it.
C20_UnclassifiedStopsAtOnce ==
    \A i \in Invs :
        \A k \in 1..Len(events[i]) :
            IsUnclassified(events[i][k]) =>
                /\ k = Len(events[i])
                /\ EngineReturned(i)
                /\ response[i] = ReturnedNone
                /\ current_gemini_model = events[i][k].model

\* After quota exhaustion on the first model the second call raised
\* "Connection Reset Error", and the engine returned None.
C20_Witness ==
    \E i \in Invs :
        /\ pc[i] = "done"
        /\ Len(Calls(i)) = 2
        /\ Calls(i)[1].out.kind = "ResourceExhausted"
        /\ IsUnclassified(Calls(i)[2])
        /\ Calls(i)[2].out.msg = <<"Connection", "Reset", "Error">>
        /\ response[i] = ReturnedNone
        /\ model_switch_attempt[i] = 1

IsSleep(e) == e.ev = "sleep"

\* The inner loop of invocation i repeats: the call it is about to make can
\* fail in a way that leads, after the sleep, to the next attempt on the
\* same model.
CanRepeatAttempt(i) ==
    ENABLED (/\ Call(i)
             /\ pc'[i] = "call"
             /\ inner_retry_attempt'[i] = inner_retry_attempt[i] + 1
             /\ current_gemini_model' = current_gemini_model
             /\ IsSleep(events'[i][Len(events'[i])])
             /\ events'[i][Len(events'[i])].secs =
                    Pow2(inner_retry_attempt[i]))

\* C15: the inner loop makes up to 3 attempts on a slot's model; an attempt
\* before the last one can be followed by another attempt on the same
\* model, and between consecutive attempts on the same model the engine
\* sleeps 2^attempt_index seconds (1 after attempt 0, 2 after attempt 1);
\* it never sleeps after the final attempt.
C15_BackoffBetweenAttempts ==
    \A i \in Invs :
        /\ \A k \in 1..(Len(events[i]) - 1) :
               (/\ IsCall(events[i][k])
                /\ \E l \in (k + 1)..Len(events[i]) :
                       /\ IsCall(events[i][l])
                       /\ events[i][l].slot = events[i][k].slot)
               => /\ IsSleep(events[i][k + 1])
                  /\ events[i][k + 1].secs \in {1, 2}
        /\ \A k \in 1..Len(events[i]) :
               IsSleep(events[i][k]) =>
                   /\ k > 1 /\ IsCall(events[i][k - 1])
                   /\ events[i][k].secs =
                          Pow2(Cardinality({l \in 1..(k - 1) :
                                  /\ IsSleep(events[i][l])
                                  /\ events[i][l].slot = events[i][k].slot}))
                   /\ events[i][k].secs < Pow2(InnerAttempts - 1)
        /\ (pc[i] = "call" /\ inner_retry_attempt[i] < InnerAttempts - 1)
               => CanRepeatAttempt(i)

\* The engine never sleeps.
C15_NoSleepEver ==
    \A i \in Invs :
        /\ \A k \in 1..Len(events[i]) : ~IsSleep(events[i][k])
        /\ inner_retry_attempt[i] = 0

\* The response of an extraction probe has a readable top-level text.
HasTopLevelText(resp) ==
    resp.kind = "response" /\ resp.body.text_attr = "value"

\* It has no top-level text attribute and some part of it bears text.
HasTextBearingPart(resp) ==
    /\ resp.kind = "response"
    /\ resp.body.text_attr = "absent"
    /\ \E p \in 1..Len(resp.body.parts) : resp.body.parts[p].has_text

\* C17 as stated: no response gives the empty string, a top-level text
\* field gives that text, without one the first text-bearing part gives
\* its text, and anything else, a failing read included, gives the empty
\* string.
C17_AsStated ==
    probe.done =>
        CASE HasTopLevelText(probe.resp) ->
                 probe.text = probe.resp.body.text
          [] HasTextBearingPart(probe.resp) ->
                 probe.text = SentText(probe.resp)
          [] OTHER -> probe.text = << >>

\* C17, amended: no response gives the empty string, a top-level text
\* field gives that text without its leading and trailing whitespace,
\* without one the first text-bearing part gives its text without leading
\* and trailing whitespace, and anything else, a failing read included,
\* gives the empty string.
C17_StrippedText ==
    probe.done =>
        CASE HasTopLevelText(probe.resp) ->
                 IsStripOf(probe.text, probe.resp.body.text)
          [] HasTextBearingPart(probe.resp) ->
                 IsStripOf(probe.text, SentText(probe.resp))
          [] OTHER -> probe.text = << >>

\* The second part was the first to bear text, with whitespace around it.
C17_Witness ==
    /\ probe.done
    /\ HasTextBearingPart(probe.resp)
    /\ ~probe.resp.body.parts[1].has_text
    /\ probe.resp.body.parts[2].text = <<" ", "o">>
    /\ probe.text = <<"o">>

\* No invocation is running.
Quiescent == \A i \in Invs : pc[i] = "idle"

\* Invocation i has computed its start position and has not ended yet.
EngineRunning(i) == pc[i] \in {"slot", "switch", "call", "extract", "done"}

\* 0-based position of the first preference entry a model name contains.
PositionOf(model) == Min(EntriesIn(PREFERRED_MODELS, model))

IsSwitch(e) == e.ev = "switch"

\* C18 as stated: once some invocation has returned a response, between
\* invocations the active model is the model that most recently returned
\* a response, and the next invocation starts at that model's position in
\* the preference list.
C18_AsStated ==
    last_success.model # None =>
        /\ Quiescent => current_gemini_model = last_success.model
        /\ \A i \in Invs :
               EngineRunning(i) =>
                   start_model_index[i] = PositionOf(last_success.model)

\* C18, amended: between invocations the active model is the model most
\* recently instantiated; when the most recent invocation returned a
\* response, that is the model that returned it, its name contains a
\* preference entry, and the next invocation starts at that entry's
\* position.
C18_LastInvocationSticks ==
    /\ \A i \in Invs :
           (pc[i] = "done" /\ SelectSeq(events[i], IsSwitch) # << >>) =>
               current_gemini_model =
                   SelectSeq(events[i], IsSwitch)[
                       Len(SelectSeq(events[i], IsSwitch))].model
    /\ last_success.fresh =>
           /\ EntriesIn(PREFERRED_MODELS, last_success.model) # {}
           /\ Quiescent => current_gemini_model = last_success.model
           /\ \A i \in Invs :
                  EngineRunning(i) =>
                      start_model_index[i] = PositionOf(last_success.model)

\* The last invocation got its response from the model of the third
\* entry, and the invocation now running starts at position 2.
C18_Witness ==
    \E i \in Invs :
        /\ last_success.fresh
        /\ Contains(last_success.model, PREFERRED_MODELS[3])
        /\ pc[i] = "call"
        /\ events[i] = << >>
        /\ start_model_index[i] = 2
        /\ model_switch_attempt[i] = 0

\* The answer to a request of `handler` that called the generation client
\* is out, and the client's return value is still at hand.
Answered(handler) ==
    /\ request.handler = handler
    /\ request.phase = "responded"
    /\ request.invoked

\* The engine of invocation i gave nothing to read: no response, or a
\* response whose text is empty once stripped.
NothingToRead(i) ==
    response[i].kind # "response" \/ IsBlank(SentText(response[i]))

\* C13: when the engine gives no response, or a response whose text is
\* empty once stripped, generate_meal_plan_with_gemini returns exactly the
\* fixed failure sentence; the sentence contains one of "Error", "Failed",
\* "Could not", and the /generate-meal-plan handler answers 500 with
\* success false and the sentence as its message.
C13_FixedSentenceDetected ==
    \A i \in Sequential :
        /\ (/\ pc[i] = "done"
            /\ op[i] = "generate_meal_plan_with_gemini"
            /\ NothingToRead(i))
           => /\ ret[i] = Returned("str", FAILED_MEAL_PLAN)
              /\ ret[i].val[1] = "Failed"
              /\ \/ Contains(ret[i].val, <<"Error">>)
                 \/ Contains(ret[i].val, <<"Failed">>)
                 \/ Contains(ret[i].val, <<"Could", " ", "not">>)
        /\ (Answered("generate_meal_plan") /\ NothingToRead(i))
           => /\ http.success = FALSE
              /\ http.status = 500
              /\ http.body = FAILED_MEAL_PLAN

\* Every slot was used up, and the handler answered with success false.
C13_Witness ==
    \E i \in Sequential :
        /\ Answered("generate_meal_plan")
        /\ response[i] = ReturnedNone
        /\ Len(Calls(i)) = n_models
        /\ http = Http(500, FALSE, FAILED_MEAL_PLAN)

\* C16: for a logged-in, onboarded user who sends meal type, description
\* and portion size, and with a working database, /log-meal stores exactly
\* one more meal_logs row, the user's, with the estimate as its calories,
\* and answers success, whatever the engine did; when the engine gave no
\* response the row holds 0 calories.
C16_MealAlwaysLogged ==
    \A i \in Sequential :
        (Answered("log_meal") /\ request.db_fault = "none") =>
            /\ login_required(session) = "pass"
            /\ request.input = TRUE
            /\ http.success = TRUE
            /\ http.status = 200
            /\ Len(db.meal_logs) = Len(request.before.meal_logs) + 1
            /\ SubSeq(db.meal_logs, 1, Len(request.before.meal_logs)) =
                   request.before.meal_logs
            /\ db.meal_logs[Len(db.meal_logs)].user_id = session.user_id
            /\ db.meal_logs[Len(db.meal_logs)].estimated_calories = ret[i].val
            /\ response[i].kind # "response" =>
                   db.meal_logs[Len(db.meal_logs)].estimated_calories =
                       ZeroFloat

\* The engine ran out of slots on quota exhaustion, and the meal was
\* stored with 0 calories.
C16_Witness ==
    \E i \in Sequential :
        /\ Answered("log_meal")
        /\ request.db_fault = "none"
        /\ response[i] = ReturnedNone
        /\ Calls(i) # << >>
        /\ Calls(i)[Len(Calls(i))].out.kind = "ResourceExhausted"
        /\ db.meal_logs = <<MealLogRow(1, ZeroFloat)>>
        /\ http.success = TRUE

\* C19: after a /delete-account request that was answered with success no
\* data of that user remains: no users row, no meal_logs row, no chat_logs
\* row and no conversations row with the user's id, and the session is
\* cleared.
C19_NoDataRemains ==
    (/\ request.handler = "delete_account"
     /\ request.phase = "responded"
     /\ http.status = 200
     /\ http.success = TRUE)
    => LET user_id == request.input.user_id
       IN  /\ UsersWithId(db, user_id) = {}
           /\ \A k \in 1..Len(db.meal_logs) :
                  db.meal_logs[k].user_id # user_id
           /\ RowsOf(db.chat_logs, user_id) = {}
           /\ RowsOf(db.conversations, user_id) = {}
           /\ session = NoSession

\* What delete_account does remove: the users row and the meal_logs rows,
\* and it clears the session.
C19_AccountAndMealsRemoved ==
    (/\ request.handler = "delete_account"
     /\ request.phase = "responded"
     /\ http.status = 200
     /\ http.success = TRUE)
    => LET user_id == request.input.user_id
       IN  /\ UsersWithId(db, user_id) = {}
           /\ \A k \in 1..Len(db.meal_logs) :
                  db.meal_logs[k].user_id # user_id
           /\ session = NoSession

\* C21: after a provider call in slot k failed with a malformed response,
\* quota exhaustion or a classified transient error, the invocation never
\* calls slot k's model again: a later call is in a later slot and on that
\* slot's model, a different one; after such a failure in the last slot no
\* call follows and the engine returns no response.
C21_AdvanceNeverRecalls ==
    \A i \in Invs :
        \A k \in 1..Len(Calls(i)) :
            IsAdvanceError(Calls(i)[k]) =>
                /\ \A l \in (k + 1)..Len(Calls(i)) :
                       /\ Calls(i)[l].slot > Calls(i)[k].slot
                       /\ Calls(i)[l].model # Calls(i)[k].model
                       /\ Contains(Calls(i)[l].model,
                                   EntryOfSlot(start_model_index[i],
                                               Calls(i)[l].slot))
                /\ model_switch_attempt[i] > Calls(i)[k].slot
                /\ Calls(i)[k].slot = n_models - 1 =>
                       /\ k = Len(Calls(i))
                       /\ pc[i] \in {"slot", "extract", "done"}
                       /\ EngineReturned(i) => response[i] = ReturnedNone

\* A malformed response in slot 0, a classified transient error in slot 1
\* and quota exhaustion in the last slot: three calls on three models, and
\* the engine returned no response.
C21_Witness ==
    \E i \in Invs :
        /\ pc[i] = "done"
        /\ Len(Calls(i)) = n_models
        /\ Calls(i)[1].out.kind = "BrokenResponseError"
        /\ Calls(i)[2].out.kind = "Exception"
        /\ Calls(i)[3].out.kind = "ResourceExhausted"
        /\ Calls(i)[3].slot = n_models - 1
        /\ response[i] = ReturnedNone

IsSwitchFailed(e) == e.ev = "switch_failed"

\* Invocation i takes the step in which the constructor of its slot's
\* model raises.
InstantiationFails(i) ==
    /\ pc[i] = "switch"
    /\ Len(events'[i]) = Len(events[i]) + 1
    /\ IsSwitchFailed(events'[i][Len(events'[i])])

\* C22: when instantiating the model of a slot fails, the engine makes no
\* provider call in that slot, leaves the active model as it was before the
\* failed switch, consumes no attempt and goes on to the next slot: whatever
\* the invocation does next belongs to a later slot.
C22_FailedSwitchSkipsSlot ==
    /\ [][\A i \in Invs :
             InstantiationFails(i) =>
                 /\ current_gemini_model' = current_gemini_model
                 /\ model_switch_attempt'[i] = model_switch_attempt[i] + 1
                 /\ total_retries'[i] = total_retries[i]
                 /\ pc'[i] = "slot"]_vars
    /\ [](\A i \in Invs :
             \A k \in 1..Len(events[i]) :
                 IsSwitchFailed(events[i][k]) =>
                     /\ \A l \in 1..Len(events[i]) :
                            IsCall(events[i][l]) =>
                                events[i][l].slot # events[i][k].slot
                     /\ \A l \in (k + 1)..Len(events[i]) :
                            events[i][l].slot > events[i][k].slot
                     /\ model_switch_attempt[i] > events[i][k].slot)

\* The switch of slot 0 failed, and the engine went on to call the model
\* of slot 1.
C22_Witness ==
    \E i \in Invs :
        /\ Len(events[i]) = 3
        /\ IsSwitchFailed(events[i][1])
        /\ events[i][1].slot = 0
        /\ IsSwitch(events[i][2])
        /\ IsCall(events[i][3])
        /\ events[i][3].slot = 1
        /\ total_retries[i] = 1

\* C23: generate_meal_plan_with_gemini derives the goal "gain weight" when
\* the current weight is below the target weight, "lose weight" when it is
\* above, "maintain weight" when the two are equal, and "maintain general
\* health and fitness" when either weight is missing.
C23_GoalLabel ==
    probe.goal # "-" =>
        LET c == probe.current_weight
            t == probe.target_weight
        IN  /\ (c = None \/ t = None) <=>
                   probe.goal = "maintain general health and fitness"
            /\ (c # None /\ t # None) =>
                   /\ probe.goal = "gain weight" <=> t[1] - c[1] > 0
                   /\ probe.goal = "lose weight" <=> c[1] - t[1] > 0
                   /\ probe.goal = "maintain weight" <=> c = t

\* A user who weighs more than the target is told to lose weight.
C23_Witness ==
    /\ probe.current_weight = <<MaxWeight>>
    /\ probe.target_weight = <<MaxWeight - 1>>
    /\ probe.goal = "lose weight"

RECURSIVE Pow10(_)
Pow10(n) == IF n = 0 THEN 1 ELSE 10 * Pow10(n - 1)

\* The number written by the digits s[from..to], 0 for an empty range.
RECURSIVE NumberAt(_, _, _)
NumberAt(s, from, to) ==
    IF to < from THEN 0
    ELSE NumberAt(s, from, to - 1) * 10 + DigitValue(s[to])

\* s[from..to] is a run of digits that neither side can extend to the right.
IsDigitRun(s, from, to) ==
    /\ \A q \in from..to : s[q] \in Digits
    /\ to = Len(s) \/ s[to + 1] \notin Digits

\* Float f is the number whole + frac / 10^places.
IsValue(f, whole, frac, places) ==
    f.num * Pow10(places) = (whole * Pow10(places) + frac) * Pow10(f.pow)

\* C25: when the provider's text contains a digit, the estimate is the value
\* of the first numeral of the text: the digits from the first digit on and,
\* when a point follows them, the point and the digits after it; a reply
\* "0" yields 0.0; and no estimate is negative.
C25_FirstNumeral ==
    (probe.calories # NotReturned) =>
        LET s == probe.text
            f == probe.calories
        IN  /\ f.kind = "float"
            /\ f.val.num >= 0
            /\ f.val.pow >= 0
            /\ s = <<"0">> => f.val = ZeroFloat
            /\ HasDigit(s) =>
                   \E p \in 1..Len(s), e \in 1..Len(s) :
                       /\ \A q \in 1..(p - 1) : s[q] \notin Digits
                       /\ p <= e
                       /\ IsDigitRun(s, p, e)
                       /\ IF e < Len(s) /\ s[e + 1] = "."
                          THEN \E d \in (e + 1)..Len(s) :
                                   /\ IsDigitRun(s, e + 2, d)
                                   /\ IsValue(f.val, NumberAt(s, p, e),
                                              NumberAt(s, e + 2, d),
                                              d - e - 1)
                          ELSE IsValue(f.val, NumberAt(s, p, e), 0, 0)

\* A reply with two numerals after a letter: the first one, 5, is returned.
C25_Witness ==
    /\ probe.text = <<"k", "5", "-", "0">>
    /\ probe.calories = Returned("float", Float(5, 0))

\* The string holds "Error", "Failed" or "Could not".
HasFailureWord(text) ==
    \/ Contains(text, <<"Error">>)
    \/ Contains(text, <<"Failed">>)
    \/ Contains(text, <<"Could", " ", "not">>)

\* C26: the /generate-meal-plan handler answers 500 with success false for
\* every returned plan string that holds "Error", "Failed" or "Could not",
\* a plan text the provider generated included, and answers with success
\* only for strings that hold none of the three.
C26_FailureWordsConflated ==
    \A i \in Sequential :
        (Answered("generate_meal_plan") /\ ret[i].kind = "str") =>
            /\ HasFailureWord(ret[i].val) =>
                   http = Http(500, FALSE, ret[i].val)
            /\ ~HasFailureWord(ret[i].val) =>
                   http = Http(200, TRUE, ret[i].val)
            /\ (response[i].kind = "response" /\
                HasFailureWord(Strip(SentText(response[i])))) =>
                   /\ http.status = 500
                   /\ http.body = Strip(SentText(response[i]))

\* The provider generated a plan text that holds "Error", and the handler
\* answered 500 with that text as its message.
C26_Witness ==
    \E i \in Sequential :
        /\ Answered("generate_meal_plan")
        /\ response[i].kind = "response"
        /\ response[i].body.text = <<"Trial", " ", "and", " ", "Error">>
        /\ http = Http(500, FALSE, <<"Trial", " ", "and", " ", "Error">>)

\* The preference entry of the slot invocation i is in.
SlotEntry(i) == EntryOfSlot(start_model_index[i], model_switch_attempt[i])

\* C24 as stated: with two invocations interleaved, every provider call of
\* an invocation is issued on the model of the call's slot, and the calls
\* of one invocation go to pairwise distinct models.
C24_AsStated ==
    \A i \in Invs :
        \A k \in 1..Len(Calls(i)) :
            /\ Contains(Calls(i)[k].model,
                        EntryOfSlot(start_model_index[i], Calls(i)[k].slot))
            /\ \A l \in 1..Len(Calls(i)) :
                   l # k => Calls(i)[l].model # Calls(i)[k].model

\* C24, amended: with two invocations interleaved, a provider call is
\* issued on the model the shared reference holds at the moment of the
\* call.  When an invocation reaches the call of a slot the reference holds
\* the slot's model, and while the invocation stands before that call only
\* a model switch of the other invocation changes the reference; so the
\* call is issued on the slot's model unless the other invocation switched
\* in between.
C24_CallsFollowActiveModel ==
    [][\A i \in Invs :
          /\ (pc[i] # "call" /\ pc'[i] = "call") =>
                 Contains(current_gemini_model', SlotEntry(i)')
          /\ (pc[i] = "call" /\ Len(Calls(i)') > Len(Calls(i))) =>
                 /\ Calls(i)'[Len(Calls(i)')].model = current_gemini_model
                 /\ Calls(i)'[Len(Calls(i)')].slot = model_switch_attempt[i]
          /\ (pc[i] = "call" /\
              current_gemini_model' # current_gemini_model) =>
                 \E j \in Invs \ {i} :
                     /\ pc[j] = "switch"
                     /\ pc'[j] = "call"
                     /\ current_gemini_model' = GenerativeModel(SlotEntry(j))
      ]_vars

\* An invocation whose second slot belongs to another model called the
\* model of its first slot twice: the other invocation had switched the
\* reference back between the check and the call.
C24_Witness ==
    \E i \in Invs :
        /\ Len(Calls(i)) = 2
        /\ Calls(i)[1].slot = 0
        /\ Calls(i)[2].slot = 1
        /\ Calls(i)[1].model = Calls(i)[2].model
        /\ ~Contains(Calls(i)[2].model, EntryOfSlot(start_model_index[i], 1))
        /\ \E k \in 1..Len(events[i]) :
               IsSwitch(events[i][k]) /\ events[i][k].slot = 1

FallbackModels ==
    {name \in NamePool : EntriesIn(PREFERRED_MODELS, name) = {}}

\* C29: when initialisation fell back to an available model whose name
\* contains no preference entry, no invocation of a sequential run issues a
\* provider call on that model: an invocation that finds it active starts
\* at position 0 and replaces it before its first call, and every provider
\* call goes to a model whose name contains the preference entry of the
\* call's slot.
C29_FallbackNeverCalled ==
    \A i \in Sequential :
        /\ \A k \in 1..Len(Calls(i)) :
               /\ Calls(i)[k].model \notin FallbackModels
               /\ Contains(Calls(i)[k].model,
                           EntryOfSlot(start_model_index[i],
                                       Calls(i)[k].slot))
        /\ current_gemini_model \in FallbackModels =>
               /\ pc[i] # "call"
               /\ EngineRunning(i) => start_model_index[i] = 0
               /\ \A k \in 1..Len(events[i]) : IsSwitchFailed(events[i][k])

\* Initialisation fell back to models/gemini-pro; the invocation could not
\* build any preferred model, made no call and returned no response while
\* the fallback model is still the active one.
C29_Witness ==
    \E i \in Sequential :
        /\ current_gemini_model = <<"models", "/", "gemini", "pro">>
        /\ pc[i] = "done"
        /\ Len(events[i]) = n_models
        /\ Calls(i) = << >>
        /\ response[i] = ReturnedNone

\* C27: when generate_chat_response returns None, /chat answers 503, the
\* session's chat_history is what it was before the request and the user's
\* message is the one new row of chat_logs; when /chat answers with
\* success, chat_history has grown by exactly the user's turn followed by
\* the model's turn, and chat_logs by the two rows.
C27_ChatRollback ==
    \A i \in Sequential :
        Answered("chat") =>
            LET before == request.input.chat_history
                message == request.input.message
                conv == session.current_conversation_id
                user_row == ChatLogRow(session.user_id, conv, "user", message)
            IN  /\ ret[i].kind = "None" <=> http.status = 503
                /\ ret[i].kind = "None" =>
                       /\ http.success = FALSE
                       /\ session.chat_history = before
                       /\ db.chat_logs =
                              Append(request.before.chat_logs, user_row)
                /\ http.status = 200 =>
                       /\ http.success = TRUE
                       /\ ret[i].kind = "str"
                       /\ http.body = ret[i].val
                       /\ session.chat_history =
                              before \o <<Turn("user", message),
                                          Turn("model", ret[i].val)>>
                       /\ db.chat_logs =
                              request.before.chat_logs \o
                              <<user_row,
                                ChatLogRow(session.user_id, conv, "model",
                                           ret[i].val)>>

\* A second message in a conversation that holds one exchange was answered
\* 503: the history is the one exchange again, and chat_logs holds the
\* message as its third row.
C27_Witness ==
    \E i \in Sequential :
        /\ Answered("chat")
        /\ http.status = 503
        /\ ret[i].kind = "None"
        /\ Len(request.input.chat_history) = 2
        /\ session.chat_history = request.input.chat_history
        /\ Len(db.chat_logs) = 3
        /\ db.chat_logs[3].role = "user"

\* The turns alternate between "user" and "model", "user" first.
IsAlternating(turns) ==
    \A k \in 1..Len(turns) :
        turns[k].role = IF k % 2 = 1 THEN "user" ELSE "model"

\* C30: whatever /logic page loads, /start-new-chat, /get-conversation and
\* /chat requests the session has seen, the turns /chat passes to
\* generate_chat_response are the two persona turns followed by strictly
\* alternating user and model turns that end with the new user turn.
C30_TurnsAlternate ==
    (request.handler = "chat" /\ request.invoked) =>
        LET contents == request.input.contents
        IN  /\ Len(contents) >= 3
            /\ SubSeq(contents, 1, 2) = PersonaTurns
            /\ IsAlternating(contents)
            /\ contents[Len(contents)] = Turn("user", request.input.message)

\* What does hold of every /chat request: the two persona turns come
\* first, the session's history follows unchanged, and the new user turn
\* is last.
C30_PersonaFirstNewTurnLast ==
    (request.handler = "chat" /\ request.invoked) =>
        request.input.contents =
            PersonaTurns \o request.input.chat_history \o
            <<Turn("user", request.input.message)>>

====
